---- MODULE Spec2Model ----
(***************************************************************************)
(* HIVEMIND server: the task dispatch and worker lifecycle coordinator.    *)
(*                                                                         *)
(* The state is the sql.js database (tables users, workers, tasks,         *)
(* transactions, sessions) and the server's map of open WebSocket          *)
(* connections.  Every message handler of HiveServer.handleMessage is one  *)
(* action: Node runs a handler to completion (no await inside), so         *)
(* handlers interleave only as wholes.                                     *)
(*                                                                         *)
(* Units: credit amounts are in hundredths of a credit (3 credits = 300),  *)
(* reputations in hundredths (1.0 = 100), time in seconds (the resolution  *)
(* of SQLite's datetime('now')).                                           *)
(* Row ids: the n-th row inserted into a table has id n (uuids in the      *)
(* code; only their distinctness matters).                                 *)
(*                                                                         *)
(* The clients (the drone of dist/client with its HiveNetwork and          *)
(* SandboxedExecutor, the drone of the CLI) are modelled at the end of the *)
(* module, each in a scope of its own; the server's actions leave the      *)
(* clients' objects alone.                                                 *)
(***************************************************************************)
EXTENDS Integers, Sequences, FiniteSets, TLC

VARIABLES
    users,        \* table users: sequence of rows
    workers,      \* table workers
    tasks,        \* table tasks
    txns,         \* table transactions (in insertion order)
    sessions,     \* table sessions: the user id of each session row
    connections,  \* HiveServer.connections: connId -> [type, workerId]
    nextConn,     \* number of connections accepted so far
    now,          \* the clock read by datetime('now')
    out,          \* what the last request sent: sequence of [to, type, task, info]
    pushes,       \* taskId -> number of 'task:assigned' messages sent for it so far
    network,      \* the client's HiveNetwork object
    sockets,      \* the WebSockets HiveNetwork created: socket -> [readyState, onOpen]
    wire,         \* what HiveNetwork wrote with ws.send and no server has handled
    drone,        \* the client's HiveDrone object (dist/client)
    cli           \* the CLI's HiveDrone object (dist/cli/commands/drone.js)

clientVars == <<network, sockets, wire, drone, cli>>

vars == <<users, workers, tasks, txns, sessions, connections, nextConn, now, out,
          pushes, network, sockets, wire, drone, cli>>

(***************************************************************************)
(* Bounds of the model.                                                    *)
(***************************************************************************)
MaxEntities == 5     \* users + workers + tasks + connections ever created
MaxReports == 1      \* outcome reports recorded by workers
MaxOutcomeReports == 2   \* the same, in the outcome scope
MaxEarnings == 1200      \* a worker at or above these earnings reports no completion
MaxTime == 1         \* last second of the clock

\* ids
NullId == 0                      \* null / undefined (no row has this id)
GhostUser == MaxEntities + 1     \* a user id string that matches no row of users
HttpCaller == NullId             \* the addressee of an HTTP response
SqlNull == NullId - 1            \* SQL NULL in a REAL column

\* inputs the environment may send
TaskCredits == {-100, 300}       \* payload.credits of 'task:create'
DispatchCredits == {300}
Priorities == {1, 5}             \* payload.priority
LedgerPriorities == {1}
Results == {"r1"}                \* payload.result / payload.reason
HttpTypes == {"inference"}
PromptLens == {1001}             \* prompt.length
HttpPriorities == {0}            \* req.body.priority (0: absent)
TickSteps == {1}
HttpIds == {1}                   \* the id or token of a GET request

\* arguments of calculateCreditsEarned: baseCredits in credits, ramGB and
\* cores in hundredths, gpuGB in GB, reputation in tenths
BaseCredits == {1, 2}
RamGB == {1, 50, 200, 800}
Cores == {1, 15, 200, 400}
GpuGB == {-1, 0, 2}
Reputations == {0, 10, 15, 40}
Limits == {1, 3}                 \* the limit argument of getPendingTasks
DepositAmounts == {100}
SpendAmounts == {100, 200}


WorkerStatuses == {"online", "offline", "busy", "disabled"}
StatusInputs == {"online", "disabled", "paused"}   \* payload.status of 'worker:status'

LivenessWindow == 60             \* datetime('now', '-1 minute'), in seconds
MinReputation == 50              \* reputation >= 0.5

\* worker rows as they stand after some time of operation
HeartbeatTimes == {0, 1, 2}
ListTimes == {60, 61}
WorkerReputations == {45, 50, 100}
MaxListed == 2                   \* rows of workers in the liveness scope

\* the delta argument of updateReputation: a number (of hundredths), or NaN
Number(v) == [nan |-> FALSE, val |-> v]
NaN == [nan |-> TRUE, val |-> 0]
Deltas == {Number(-300), Number(-5), Number(5), Number(300), NaN}

\* workers after a hundred outcomes or so: completions only (reputation
\* 1.99, 2.0), failures only (0.1), failures and then two completions (0.12)
WorkerHistories ==
    {[completed |-> 99, failed |-> 0, reputation |-> 199],
     [completed |-> 100, failed |-> 0, reputation |-> 200],
     [completed |-> 0, failed |-> 99, reputation |-> 10],
     [completed |-> 2, failed |-> 98, reputation |-> 12]}
MaxHistory == 102                \* outcomes recorded per worker
MaxClock == 61                   \* the clock stops after one silent span

Max(a, b) == IF a >= b THEN a ELSE b
Min(a, b) == IF a <= b THEN a ELSE b

(***************************************************************************)
(* The database as one value, and results of calls: the database after    *)
(* the call, whether the call threw, and the returned row id.             *)
(***************************************************************************)
DB == [users |-> users, workers |-> workers, tasks |-> tasks, txns |-> txns,
       sessions |-> sessions]

SetDB(D) ==
    /\ users' = D.users
    /\ workers' = D.workers
    /\ tasks' = D.tasks
    /\ txns' = D.txns
    /\ sessions' = D.sessions

Ok(D, r) == [db |-> D, err |-> FALSE, ret |-> r]
Throw(D) == [db |-> D, err |-> TRUE, ret |-> NullId]

\* sql.js Statement.bindValue throws on a parameter that is undefined
\* (it binds strings, numbers, booleans, null and blobs only).
BindOk(v) == v # NullId

(***************************************************************************)
(* AuthSystem                                                              *)
(***************************************************************************)
\* register(username, email, password); fresh = the username and email are unused
register(D, fresh) ==
    IF ~fresh
    THEN Throw(D)
    ELSE LET userId == Len(D.users) + 1
             row == [credits |-> 0, reputation |-> 100, totalEarned |-> 0, totalSpent |-> 0]
         IN Ok([D EXCEPT !.users = Append(@, row),
                         !.sessions = Append(@, userId)], userId)

\* updateReputation(userId, delta): UPDATE users SET reputation =
\* MAX(0.1, MIN(2.0, reputation + ?)).  A delta that is NaN or null is bound
\* as SQL NULL; reputation + NULL, and MIN and MAX of it, are NULL.
updateReputation(D, userId, delta) ==
    IF userId \in DOMAIN D.users
    THEN LET old == D.users[userId].reputation
             new == IF delta.nan \/ old = SqlNull
                    THEN SqlNull
                    ELSE Max(10, Min(200, old + delta.val))
         IN Ok([D EXCEPT !.users[userId].reputation = new], NullId)
    ELSE Ok(D, NullId)

(***************************************************************************)
(* CreditSystem                                                            *)
(***************************************************************************)
getBalance(D, userId) ==
    IF userId \in DOMAIN D.users THEN D.users[userId].credits ELSE 0

\* deposit that credits the account without writing the ledger row
deposit_noLedgerRow(D, userId, amount) ==
    IF userId \notin DOMAIN D.users
    THEN Throw(D)
    ELSE LET currentCredits == D.users[userId].credits
             newBalance == currentCredits + amount
         IN Ok([D EXCEPT !.users[userId].credits = newBalance,
                         !.users[userId].totalEarned = @ + amount], Len(D.txns) + 1)

deposit(D, userId, amount) ==
    IF userId \notin DOMAIN D.users
    THEN Throw(D)
    ELSE LET currentCredits == D.users[userId].credits
             newBalance == currentCredits + amount
             txn == [userId |-> userId, type |-> "deposit", amount |-> amount,
                     balanceAfter |-> newBalance, taskId |-> NullId]
         IN Ok([D EXCEPT !.txns = Append(@, txn),
                         !.users[userId].credits = newBalance,
                         !.users[userId].totalEarned = @ + amount], Len(D.txns) + 1)

\* spend without the balance check
spend_unchecked(D, userId, amount, taskId) ==
    IF userId \notin DOMAIN D.users
    THEN Throw(D)
    ELSE LET currentCredits == D.users[userId].credits
             newBalance == currentCredits - amount
             txn == [userId |-> userId, type |-> "spend", amount |-> amount,
                     balanceAfter |-> newBalance, taskId |-> taskId]
         IN Ok([D EXCEPT !.txns = Append(@, txn),
                         !.users[userId].credits = newBalance,
                         !.users[userId].totalSpent = @ + amount], Len(D.txns) + 1)

\* spend that records the balance before the debit as balance_after
spend_staleBalanceAfter(D, userId, amount, taskId) ==
    IF userId \notin DOMAIN D.users
    THEN Throw(D)
    ELSE LET currentCredits == D.users[userId].credits
             newBalance == currentCredits - amount
             txn == [userId |-> userId, type |-> "spend", amount |-> amount,
                     balanceAfter |-> currentCredits, taskId |-> taskId]
         IN IF currentCredits < amount
            THEN Throw(D)
            ELSE Ok([D EXCEPT !.txns = Append(@, txn),
                              !.users[userId].credits = newBalance,
                              !.users[userId].totalSpent = @ + amount], Len(D.txns) + 1)

spend(D, userId, amount, taskId) ==
    IF userId \notin DOMAIN D.users
    THEN Throw(D)
    ELSE LET currentCredits == D.users[userId].credits
             newBalance == currentCredits - amount
             txn == [userId |-> userId, type |-> "spend", amount |-> amount,
                     balanceAfter |-> newBalance, taskId |-> taskId]
         IN IF currentCredits < amount
            THEN Throw(D)
            ELSE Ok([D EXCEPT !.txns = Append(@, txn),
                              !.users[userId].credits = newBalance,
                              !.users[userId].totalSpent = @ + amount], Len(D.txns) + 1)

\* Number(x.toFixed(2)) of x = n / 100000, in hundredths.  toFixed rounds the
\* binary value of x to the nearest hundredth; when n / 100000 lies exactly
\* halfway between two hundredths the double that holds it is just below or
\* just above, and the result is either neighbour (0.5 * 0.15 = 0.075 gives
\* 0.07, 0.5 * 0.1 * 1.5 gives 0.08).
toFixed2(n) ==
    LET q == n \div 1000
        r == n % 1000
    IN IF r < 500 THEN {q} ELSE IF r > 500 THEN {q + 1} ELSE {q, q + 1}

\* the formula without the floors of 0.1 on ramGB and cores
calculateCreditsEarned_noFloor(baseCredits, ramGB, cores, gpuGB, reputation) ==
    LET gpuMultiplier == IF gpuGB > 0 THEN 1 + gpuGB ELSE 1
        repMultiplier == Max(1, Min(30, reputation))
    IN toFixed2(baseCredits * ramGB * cores * gpuMultiplier * repMultiplier)

\* the values calculateCreditsEarned may return, in hundredths of a credit
calculateCreditsEarned(baseCredits, ramGB, cores, gpuGB, reputation) ==
    LET ramMultiplier == Max(10, ramGB)
        coreMultiplier == Max(10, cores)
        gpuMultiplier == IF gpuGB > 0 THEN 1 + gpuGB ELSE 1
        repMultiplier == Max(1, Min(30, reputation))
    IN toFixed2(baseCredits * ramMultiplier * coreMultiplier * gpuMultiplier * repMultiplier)

\* awardEarnings that updates the worker row only
awardEarnings_workerOnly(D, workerId, amount, taskId) ==
    IF ~BindOk(workerId)
    THEN Throw(D)
    ELSE IF workerId \in DOMAIN D.workers
         THEN Ok([D EXCEPT !.workers[workerId].totalEarnings = @ + amount], NullId)
         ELSE Ok(D, NullId)

awardEarnings(D, workerId, amount, taskId) ==
    IF ~BindOk(workerId)
    THEN Throw(D)
    ELSE LET known == workerId \in DOMAIN D.workers
             D1 == IF known
                   THEN [D EXCEPT !.workers[workerId].totalEarnings = @ + amount]
                   ELSE D
             userId == IF known THEN D.workers[workerId].userId ELSE NullId
         IN IF userId # NullId THEN deposit(D1, userId, amount) ELSE Ok(D1, NullId)

(***************************************************************************)
(* TaskQueue                                                               *)
(***************************************************************************)
create(D, userId, priority, creditsEstimate, t) ==
    LET row == [userId |-> userId, status |-> "pending", priority |-> priority,
                creditsEstimate |-> creditsEstimate, assignedWorkerId |-> NullId,
                resultData |-> <<>>, createdAt |-> t]
    IN Ok([D EXCEPT !.tasks = Append(@, row)], Len(D.tasks) + 1)

\* the order reversed: ORDER BY priority ASC
FirstPending_lowestFirst(D) ==
    LET P == {i \in DOMAIN D.tasks : D.tasks[i].status = "pending"}
    IN {i \in P : \A j \in P :
            \/ D.tasks[i].priority < D.tasks[j].priority
            \/ /\ D.tasks[i].priority = D.tasks[j].priority
               /\ D.tasks[i].createdAt <= D.tasks[j].createdAt}

\* a sort that ignores the priority
Before_fifo(D, i, j) == i < j

\* row i sorts before row j under ORDER BY priority DESC, created_at ASC.
\* created_at has a resolution of one second; rows with equal keys leave
\* SQLite's sorter in the order they entered it, which is the order of the
\* scan of idx_tasks_status: ascending rowid, the order of insertion.
Before(D, i, j) ==
    \/ D.tasks[i].priority > D.tasks[j].priority
    \/ /\ D.tasks[i].priority = D.tasks[j].priority
       /\ D.tasks[i].createdAt < D.tasks[j].createdAt
    \/ /\ D.tasks[i].priority = D.tasks[j].priority
       /\ D.tasks[i].createdAt = D.tasks[j].createdAt
       /\ i < j

\* getPendingTasks(limit): the ids of the rows returned, in order
getPendingTasks(D, limit) ==
    LET P == {i \in DOMAIN D.tasks : D.tasks[i].status = "pending"}
        rank(i) == 1 + Cardinality({j \in P : Before(D, j, i)})
    IN [k \in 1..Min(limit, Cardinality(P)) |-> CHOOSE i \in P : rank(i) = k]

\* the row ORDER BY priority DESC, created_at ASC puts first (none: {})
FirstPending(D) ==
    LET P == {i \in DOMAIN D.tasks : D.tasks[i].status = "pending"}
    IN {i \in P : \A j \in P \ {i} : Before(D, i, j)}

\* the query without WHERE status = 'pending'
getPendingTasks1_anyStatus(D) ==
    LET P == DOMAIN D.tasks
        first == {i \in P : \A j \in P :
                     \/ D.tasks[i].priority > D.tasks[j].priority
                     \/ /\ D.tasks[i].priority = D.tasks[j].priority
                        /\ D.tasks[i].createdAt <= D.tasks[j].createdAt}
    IN IF first = {} THEN {NullId} ELSE first

\* getPendingTasks(1): the possible results, as sets of at most one task id
getPendingTasks1(D) ==
    IF FirstPending(D) = {} THEN {NullId} ELSE FirstPending(D)

\* assignToWorker that binds a missing worker id as NULL
assignToWorker_bindNull(D, taskId, workerId) ==
    IF taskId \in DOMAIN D.tasks /\ D.tasks[taskId].status = "pending"
    THEN Ok([D EXCEPT !.tasks[taskId].status = "assigned",
                      !.tasks[taskId].assignedWorkerId = workerId], taskId)
    ELSE Ok(D, IF taskId \in DOMAIN D.tasks THEN taskId ELSE NullId)

assignToWorker(D, taskId, workerId) ==
    IF ~BindOk(workerId)
    THEN Throw(D)
    ELSE IF taskId \in DOMAIN D.tasks /\ D.tasks[taskId].status = "pending"
         THEN Ok([D EXCEPT !.tasks[taskId].status = "assigned",
                           !.tasks[taskId].assignedWorkerId = workerId], taskId)
         ELSE Ok(D, IF taskId \in DOMAIN D.tasks THEN taskId ELSE NullId)

\* result_data holds JSON text: <<>> is NULL, <<v>> is JSON.stringify(v) of a
\* string v, <<"error", r>> is JSON.stringify({ error: r })
complete(D, taskId, resultData) ==
    IF taskId \in DOMAIN D.tasks
    THEN Ok([D EXCEPT !.tasks[taskId].status = "completed",
                      !.tasks[taskId].resultData = <<resultData>>], taskId)
    ELSE Ok(D, NullId)

\* fail that puts the task back in the queue
fail_requeue(D, taskId, reason) ==
    IF taskId \in DOMAIN D.tasks
    THEN Ok([D EXCEPT !.tasks[taskId].status = "pending",
                      !.tasks[taskId].resultData = <<"error", reason>>], taskId)
    ELSE Ok(D, NullId)

fail(D, taskId, reason) ==
    IF taskId \in DOMAIN D.tasks
    THEN Ok([D EXCEPT !.tasks[taskId].status = "failed",
                      !.tasks[taskId].resultData = <<"error", reason>>], taskId)
    ELSE Ok(D, NullId)

verify(D, taskId, isCorrect) ==
    IF taskId \in DOMAIN D.tasks
    THEN Ok([D EXCEPT !.tasks[taskId].status = IF isCorrect THEN "verified" ELSE "failed"],
            taskId)
    ELSE Ok(D, NullId)

(***************************************************************************)
(* WorkerRegistry                                                          *)
(***************************************************************************)
registerWorker(D, userId, t) ==
    LET row == [userId |-> userId, status |-> "online", reputation |-> 100,
                totalTasksCompleted |-> 0, totalTasksFailed |-> 0,
                totalEarnings |-> 0, lastHeartbeat |-> t]
    IN Ok([D EXCEPT !.workers = Append(@, row)], Len(D.workers) + 1)

heartbeat(D, workerId, t) ==
    IF workerId \in DOMAIN D.workers
    THEN Ok([D EXCEPT !.workers[workerId].lastHeartbeat = t], NullId)
    ELSE Ok(D, NullId)

setStatus(D, workerId, status) ==
    IF ~BindOk(workerId)
    THEN Throw(D)
    ELSE IF workerId \in DOMAIN D.workers
         THEN Ok([D EXCEPT !.workers[workerId].status = status], NullId)
         ELSE Ok(D, NullId)

\* a liveness window that still admits a heartbeat exactly one minute old
getAvailableWorkers_closedWindow(D, t) ==
    LET A == {w \in DOMAIN D.workers :
                 /\ D.workers[w].lastHeartbeat >= t - LivenessWindow
                 /\ D.workers[w].status \in {"online", "busy"}
                 /\ D.workers[w].reputation >= MinReputation}
        before(v, w) ==
            \/ D.workers[v].reputation > D.workers[w].reputation
            \/ /\ D.workers[v].reputation = D.workers[w].reputation
               /\ D.workers[v].lastHeartbeat < D.workers[w].lastHeartbeat
            \/ /\ D.workers[v].reputation = D.workers[w].reputation
               /\ D.workers[v].lastHeartbeat = D.workers[w].lastHeartbeat
               /\ v < w
        rank(w) == 1 + Cardinality({v \in A : before(v, w)})
    IN [k \in 1..Cardinality(A) |-> CHOOSE w \in A : rank(w) = k]

\* getAvailableWorkers() at time t: the ids of the rows returned, in order
\* (WHERE last_heartbeat > datetime('now', '-1 minute') AND status IN
\* ('online', 'busy') AND reputation >= 0.5 ORDER BY reputation DESC,
\* last_heartbeat ASC)
getAvailableWorkers(D, t) ==
    LET A == {w \in DOMAIN D.workers :
                 /\ D.workers[w].lastHeartbeat > t - LivenessWindow
                 /\ D.workers[w].status \in {"online", "busy"}
                 /\ D.workers[w].reputation >= MinReputation}
        before(v, w) ==
            \/ D.workers[v].reputation > D.workers[w].reputation
            \/ /\ D.workers[v].reputation = D.workers[w].reputation
               /\ D.workers[v].lastHeartbeat < D.workers[w].lastHeartbeat
            \/ /\ D.workers[v].reputation = D.workers[w].reputation
               /\ D.workers[v].lastHeartbeat = D.workers[w].lastHeartbeat
               /\ v < w
        rank(w) == 1 + Cardinality({v \in A : before(v, w)})
    IN [k \in 1..Cardinality(A) |-> CHOOSE w \in A : rank(w) = k]

recordTaskCompletion(D, workerId, earnings) ==
    IF ~BindOk(workerId)
    THEN Throw(D)
    ELSE IF workerId \in DOMAIN D.workers
         THEN Ok([D EXCEPT !.workers[workerId].status = "online",
                           !.workers[workerId].totalTasksCompleted = @ + 1,
                           !.workers[workerId].totalEarnings = @ + earnings,
                           !.workers[workerId].reputation = Min(200, @ + 1)], NullId)
         ELSE Ok(D, NullId)

\* recordTaskFailure that leaves the worker's status as it is
recordTaskFailure_keepsStatus(D, workerId) ==
    IF ~BindOk(workerId)
    THEN Throw(D)
    ELSE IF workerId \in DOMAIN D.workers
         THEN Ok([D EXCEPT !.workers[workerId].totalTasksFailed = @ + 1,
                           !.workers[workerId].reputation = Max(10, @ - 5)], NullId)
         ELSE Ok(D, NullId)

recordTaskFailure(D, workerId) ==
    IF ~BindOk(workerId)
    THEN Throw(D)
    ELSE IF workerId \in DOMAIN D.workers
         THEN Ok([D EXCEPT !.workers[workerId].status = "online",
                           !.workers[workerId].totalTasksFailed = @ + 1,
                           !.workers[workerId].reputation = Max(10, @ - 5)], NullId)
         ELSE Ok(D, NullId)

(***************************************************************************)
(* HTTP facade helpers                                                     *)
(***************************************************************************)
baseCredits(type) ==
    CASE type = "inference" -> 100
      [] type = "embedding" -> 200
      [] type = "tokenization" -> 50
      [] type = "training" -> 500
      [] OTHER -> 100

\* Math.ceil(prompt.length / 1000)
lengthMultiplier(len) == (len + 999) \div 1000

estimateTaskCredits(type, len) == baseCredits(type) * lengthMultiplier(len)

(***************************************************************************)
(* HiveServer                                                              *)
(***************************************************************************)
Msg(to, type, task, info) == [to |-> to, type |-> type, task |-> task, info |-> info]

ErrorMsg(c) == Msg(c, "error", NullId, <<>>)

\* the 'error' event of a 'task:create' that carries no userId
AuthRequired(c) == Msg(c, "error", NullId, <<"Authentication required">>)

\* the 'worker:task-available' messages, one per worker connection, for ids 1..n
RECURSIVE broadcastUpTo(_, _)
broadcastUpTo(conns, n) ==
    IF n = 0
    THEN <<>>
    ELSE LET rest == broadcastUpTo(conns, n - 1)
         IN IF n \in DOMAIN conns /\ conns[n].type = "worker"
            THEN Append(rest, Msg(n, "worker:task-available", NullId, <<>>))
            ELSE rest

broadcastTaskAvailable(conns) == broadcastUpTo(conns, MaxEntities + 1)

\* a dispatch that hands nothing to a worker that is busy
dispatchTaskToWorker_idleOnly(D, workerId, task) ==
    IF task = NullId \/ (workerId \in DOMAIN D.workers /\ D.workers[workerId].status = "busy")
    THEN Ok(D, NullId)
    ELSE LET r1 == assignToWorker(D, task, workerId)
         IN IF r1.err
            THEN r1
            ELSE LET r2 == setStatus(r1.db, workerId, "busy")
                 IN IF r2.err THEN r2 ELSE Ok(r2.db, task)

\* a dispatch that marks the worker busy before it looks at the queue
dispatchTaskToWorker_busyFirst(D, workerId, task) ==
    LET r0 == setStatus(D, workerId, "busy")
    IN IF r0.err
       THEN r0
       ELSE IF task = NullId
       THEN Ok(r0.db, NullId)
       ELSE LET r1 == assignToWorker(r0.db, task, workerId)
            IN IF r1.err THEN r1 ELSE Ok(r1.db, task)

\* task = pendingTasks[0], or NullId when getPendingTasks(1) is empty
dispatchTaskToWorker(D, workerId, task) ==
    IF task = NullId
    THEN Ok(D, NullId)
    ELSE LET r1 == assignToWorker(D, task, workerId)
         IN IF r1.err
            THEN r1
            ELSE LET r2 == setStatus(r1.db, workerId, "busy")
                 IN IF r2.err THEN r2 ELSE Ok(r2.db, task)

handleTaskComplete(D, workerId, taskId, result) ==
    LET r1 == complete(D, taskId, result)
    IN IF r1.ret = NullId
       THEN r1
       ELSE LET c == r1.db.tasks[taskId].creditsEstimate
                r2 == awardEarnings(r1.db, workerId, c, taskId)
            IN IF r2.err THEN r2 ELSE recordTaskCompletion(r2.db, workerId, c)

\* the database file after handleTaskComplete, given that it held D before:
\* the in-memory database as of the last save() the call reached.  complete,
\* awardEarnings and recordTaskCompletion each end with this.save(), which
\* writes the whole database; a call that throws does not reach its save().
savedByTaskComplete(D, workerId, taskId, result) ==
    LET r1 == complete(D, taskId, result)
    IN IF r1.ret = NullId
       THEN r1.db
       ELSE LET c == r1.db.tasks[taskId].creditsEstimate
                r2 == awardEarnings(r1.db, workerId, c, taskId)
            IN IF r2.err
               THEN r1.db
               ELSE LET r3 == recordTaskCompletion(r2.db, workerId, c)
                    IN IF r3.err THEN r2.db ELSE r3.db

handleTaskFailed(D, workerId, taskId, reason) ==
    LET r1 == fail(D, taskId, reason)
    IN IF r1.ret = NullId THEN r1 ELSE recordTaskFailure(r1.db, workerId)

\* POST /api/tasks that creates the task before it looks at the balance
postTask_createFirst(D, userId, type, len, priority, t) ==
    LET creditEstimate == estimateTaskCredits(type, len)
        r1 == create(D, userId, priority, creditEstimate, t)
        balance == getBalance(r1.db, userId)
    IN IF balance < creditEstimate
       THEN Throw(r1.db)
       ELSE spend(r1.db, userId, creditEstimate, r1.ret)

\* POST /api/tasks
postTask(D, userId, type, len, priority, t) ==
    LET creditEstimate == estimateTaskCredits(type, len)
        balance == getBalance(D, userId)
    IN IF balance < creditEstimate
       THEN Throw(D)
       ELSE LET r1 == create(D, userId, priority, creditEstimate, t)
            IN spend(r1.db, userId, creditEstimate, r1.ret)

(***************************************************************************)
(* Queries.  Each is one SELECT: the database it returns is the database   *)
(* it was given.  Rows are returned by id.                                 *)
(***************************************************************************)
\* AuthSystem.verifyToken: the session of a token, <<>> for none (a session
\* expires after the time span the model covers)
verifyToken(D, token) ==
    Ok(D, IF token \in DOMAIN D.sessions THEN <<D.sessions[token]>> ELSE <<>>)

getUserById(D, userId) == Ok(D, IF userId \in DOMAIN D.users THEN <<userId>> ELSE <<>>)

getAllUsers(D) == Ok(D, DOMAIN D.users)

getTransactionHistory(D, userId) ==
    IF ~BindOk(userId)
    THEN Throw(D)
    ELSE Ok(D, {i \in DOMAIN D.txns : D.txns[i].userId = userId})

\* a task:get that marks the task it returns as running
getById_markRunning(D, taskId) ==
    IF taskId \in DOMAIN D.tasks /\ D.tasks[taskId].status = "assigned"
    THEN Ok([D EXCEPT !.tasks[taskId].status = "running"], <<taskId>>)
    ELSE Ok(D, IF taskId \in DOMAIN D.tasks THEN <<taskId>> ELSE <<>>)

\* TaskQueue.getById
getById(D, taskId) ==
    IF ~BindOk(taskId)
    THEN Throw(D)
    ELSE Ok(D, IF taskId \in DOMAIN D.tasks THEN <<taskId>> ELSE <<>>)

getAll(D) == Ok(D, DOMAIN D.tasks)

getByUser(D, userId) ==
    IF ~BindOk(userId)
    THEN Throw(D)
    ELSE Ok(D, {t \in DOMAIN D.tasks : D.tasks[t].userId = userId})

\* TaskQueue.getStats
getStats(D) ==
    LET count(s) == Cardinality({t \in DOMAIN D.tasks : D.tasks[t].status = s})
    IN Ok(D, [total |-> Len(D.tasks), pending |-> count("pending"),
              running |-> count("running"), completed |-> count("completed"),
              failed |-> count("failed")])

getAllWorkers(D) == Ok(D, DOMAIN D.workers)

\* WorkerRegistry.getStats
getWorkerStats(D, t) ==
    LET online == Cardinality({w \in DOMAIN D.workers :
                                  D.workers[w].lastHeartbeat > t - LivenessWindow})
    IN Ok(D, [total |-> Len(D.workers), online |-> online,
              offline |-> Len(D.workers) - online])

\* the 'admin:data' snapshot for connection c
sendAdminDashboard(D, c, t) ==
    LET r1 == getAllWorkers(D)
        r2 == getAll(r1.db)
        r3 == getAllUsers(r2.db)
        r4 == getWorkerStats(r3.db, t)
        r5 == getStats(r4.db)
    IN [db |-> r5.db, err |-> FALSE,
        ret |-> Msg(c, "admin:data", NullId,
                    <<Cardinality(r3.ret), r4.ret.total, r5.ret.pending>>)]

\* the GET endpoints of the HTTP facade; ret is the status of the answer
HttpGetRoutes ==
    {"/api/auth/me", "/api/users", "/api/users/:id", "/api/credits/:userId",
     "/api/credits/:userId/history", "/api/workers", "/api/workers/online",
     "/api/workers/stats", "/api/tasks", "/api/tasks?userId", "/api/tasks?status",
     "/api/tasks/:id", "/api/tasks/stats", "/api/stats", "/api/network/status"}

Found(r) == [r EXCEPT !.ret = IF r.err THEN "500" ELSE IF r.ret = <<>> THEN "404" ELSE "200"]
Answered(r) == [r EXCEPT !.ret = IF r.err THEN "500" ELSE "200"]

httpGet(D, route, id, t) ==
    CASE route = "/api/auth/me" ->
           LET r1 == verifyToken(D, id)
           IN IF r1.ret = <<>>
              THEN [r1 EXCEPT !.ret = "401"]
              ELSE Found(getUserById(r1.db, r1.ret[1]))
      [] route = "/api/users" -> Answered(getAllUsers(D))
      [] route = "/api/users/:id" -> Found(getUserById(D, id))
      [] route = "/api/credits/:userId" -> Answered(Ok(D, getBalance(D, id)))
      [] route = "/api/credits/:userId/history" -> Answered(getTransactionHistory(D, id))
      [] route = "/api/workers" -> Answered(getAllWorkers(D))
      [] route = "/api/workers/online" -> Answered(Ok(D, getAvailableWorkers(D, t)))
      [] route = "/api/workers/stats" -> Answered(getWorkerStats(D, t))
      [] route = "/api/tasks" -> Answered(getAll(D))
      [] route = "/api/tasks?userId" -> Answered(getByUser(D, id))
      [] route = "/api/tasks?status" -> Answered(Throw(D))   \* getByStatus is not a function
      [] route = "/api/tasks/:id" -> Found(getById(D, id))
      [] route = "/api/tasks/stats" -> Answered(getStats(D))
      [] route = "/api/stats" ->
           Answered(getAllUsers(getStats(getWorkerStats(D, t).db).db))
      [] route = "/api/network/status" ->
           Answered(getAllUsers(getStats(getWorkerStats(D, t).db).db))

(***************************************************************************)
(* The client objects as their constructors leave them.                    *)
(***************************************************************************)
InitClient ==
    /\ network = [ws |-> NullId, workerId |-> NullId, reconnectTimeout |-> FALSE,
                  heartbeatInterval |-> FALSE, connected |-> FALSE,
                  messageQueue |-> <<>>,
                  intervals |-> 0,        \* heartbeat intervals still running
                  spinning |-> FALSE]     \* flushMessageQueue never returns
    /\ sockets = <<>>
    /\ wire = <<>>
    /\ drone = [running |-> FALSE,
                maxConcurrentTasks |-> 2,   \* config.maxConcurrentTasks || 2
                conn |-> NullId,            \* the server's connection of its socket
                active |-> 0,               \* stats.active
                activeTasks |-> 0,          \* resources.executor.activeTasks.size
                executing |-> {}]           \* tasks whose runTask has not returned
    /\ cli = [running |-> FALSE, status |-> "disconnected", conn |-> NullId,
              intervals |-> <<>>,         \* next firing time of each interval
              reconnectAt |-> NullId]     \* firing time of reconnectTimeout, if set

(***************************************************************************)
(* Initial state: an empty database, no connection.                        *)
(***************************************************************************)
Init ==
    /\ InitClient
    /\ users = <<>>
    /\ workers = <<>>
    /\ tasks = <<>>
    /\ txns = <<>>
    /\ sessions = <<>>
    /\ connections = <<>>
    /\ nextConn = 0
    /\ now = 0
    /\ out = <<>>
    /\ pushes = <<>>

UserRefs == {NullId} \cup DOMAIN users                 \* a payload's userId
TaskRefs == DOMAIN tasks \cup {Len(tasks) + 1}          \* a payload's taskId

pushCount(t) == IF t \in DOMAIN pushes THEN pushes[t] ELSE 0

\* outcome reports recorded so far, over all workers
RECURSIVE Recorded(_)
Recorded(ws) ==
    IF ws = <<>>
    THEN 0
    ELSE Head(ws).totalTasksCompleted + Head(ws).totalTasksFailed + Recorded(Tail(ws))

\* rows and connections created so far
Entities == Len(users) + Len(workers) + Len(tasks) + nextConn

\* a catch block that swallows the error
Reply_silent(c, r, okMsgs) == out' = IF r.err THEN <<>> ELSE okMsgs

Reply(c, r, okMsgs) == out' = IF r.err THEN <<ErrorMsg(c)>> ELSE okMsgs

(***************************************************************************)
(* Connections                                                             *)
(***************************************************************************)
\* handleConnection
Connect ==
    /\ Entities < MaxEntities
    /\ nextConn' = nextConn + 1
    /\ connections' = connections @@ ((nextConn + 1) :> [type |-> "client", workerId |-> NullId])
    /\ out' = <<>>
    /\ UNCHANGED <<users, workers, tasks, txns, sessions, now, pushes>>
    /\ UNCHANGED clientVars

\* a close handler that hands the tasks of the connection's worker back to
\* the queue and marks the worker offline
Close_requeue(c) ==
    /\ c \in DOMAIN connections
    /\ connections' = [d \in DOMAIN connections \ {c} |-> connections[d]]
    /\ out' = <<>>
    /\ LET w == connections[c].workerId
       IN /\ tasks' = [t \in DOMAIN tasks |->
                         IF tasks[t].status = "assigned" /\ tasks[t].assignedWorkerId = w
                         THEN [tasks[t] EXCEPT !.status = "pending",
                                               !.assignedWorkerId = NullId]
                         ELSE tasks[t]]
          /\ workers' = [v \in DOMAIN workers |->
                           IF v = w THEN [workers[v] EXCEPT !.status = "offline"]
                           ELSE workers[v]]
    /\ UNCHANGED <<users, txns, sessions, nextConn, now, pushes>>
    /\ UNCHANGED clientVars

\* ws.on('close')
Close(c) ==
    /\ c \in DOMAIN connections
    /\ connections' = [d \in DOMAIN connections \ {c} |-> connections[d]]
    /\ out' = <<>>
    /\ UNCHANGED <<users, workers, tasks, txns, sessions, nextConn, now, pushes>>
    /\ UNCHANGED clientVars

\* more than a minute passes without a message
Elapse ==
    /\ now + LivenessWindow + 1 <= MaxClock
    /\ now' = now + LivenessWindow + 1
    /\ out' = <<>>
    /\ UNCHANGED <<users, workers, tasks, txns, sessions, connections, nextConn,
                   pushes>>
    /\ UNCHANGED clientVars

Tick ==
    /\ \E d \in TickSteps :
        /\ now + d <= MaxTime
        /\ now' = now + d
    /\ out' = <<>>
    /\ UNCHANGED <<users, workers, tasks, txns, sessions, connections, nextConn,
                   pushes>>
    /\ UNCHANGED clientVars

(***************************************************************************)
(* Message handlers (handleMessage), one action per message type           *)
(***************************************************************************)
\* data that JSON.parse rejects: the catch block of ws.on('message') answers
ParseError(c) ==
    /\ c \in DOMAIN connections
    /\ out' = <<Msg(c, "error", NullId, <<"SyntaxError">>)>>
    /\ UNCHANGED <<users, workers, tasks, txns, sessions, connections, nextConn, now,
                   pushes>>
    /\ UNCHANGED clientVars

\* a message whose type no case matches: the default case answers
UnknownMessage(c) ==
    /\ c \in DOMAIN connections
    /\ out' = <<Msg(c, "error", NullId, <<"Unknown message type">>)>>
    /\ UNCHANGED <<users, workers, tasks, txns, sessions, connections, nextConn, now,
                   pushes>>
    /\ UNCHANGED clientVars

AuthRegister(c, fresh) ==
    /\ c \in DOMAIN connections
    /\ IF fresh THEN Entities < MaxEntities ELSE Len(users) > 0
    /\ LET r == register(DB, fresh)
       IN /\ SetDB(r.db)
          /\ Reply(c, r, <<Msg(c, "auth:success", NullId, <<r.ret>>)>>)
    /\ UNCHANGED <<connections, nextConn, now, pushes>>
    /\ UNCHANGED clientVars

\* 'admin:connect'
AdminConnect(c) ==
    /\ c \in DOMAIN connections
    /\ connections' = [connections EXCEPT ![c].type = "admin"]
    /\ LET r == sendAdminDashboard(DB, c, now)
       IN /\ SetDB(r.db)
          /\ out' = <<r.ret>>
    /\ UNCHANGED <<nextConn, now, pushes>>
    /\ UNCHANGED clientVars

\* 'admin:refresh'
AdminRefresh(c) ==
    /\ c \in DOMAIN connections
    /\ LET r == sendAdminDashboard(DB, c, now)
       IN /\ SetDB(r.db)
          /\ out' = <<r.ret>>
    /\ UNCHANGED <<connections, nextConn, now, pushes>>
    /\ UNCHANGED clientVars

\* 'task:get'
TaskGet(c, taskId) ==
    /\ c \in DOMAIN connections
    /\ LET r == getById(DB, taskId)
       IN /\ SetDB(r.db)
          /\ Reply(c, r, <<Msg(c, "task:data", NullId, r.ret)>>)
    /\ UNCHANGED <<connections, nextConn, now, pushes>>
    /\ UNCHANGED clientVars

\* 'task:list'
TaskList(c, userId) ==
    /\ c \in DOMAIN connections
    /\ LET r == getByUser(DB, userId)
       IN /\ SetDB(r.db)
          /\ Reply(c, r, <<Msg(c, "task:list", NullId, <<r.ret>>)>>)
    /\ UNCHANGED <<connections, nextConn, now, pushes>>
    /\ UNCHANGED clientVars

\* 'task:stats'
TaskStats(c) ==
    /\ c \in DOMAIN connections
    /\ LET r == getStats(DB)
       IN /\ SetDB(r.db)
          /\ Reply(c, r, <<Msg(c, "task:stats", NullId, <<r.ret>>)>>)
    /\ UNCHANGED <<connections, nextConn, now, pushes>>
    /\ UNCHANGED clientVars

\* 'worker:stats'
WorkerStats(c) ==
    /\ c \in DOMAIN connections
    /\ LET r == getWorkerStats(DB, now)
       IN /\ SetDB(r.db)
          /\ Reply(c, r, <<Msg(c, "worker:stats", NullId, <<r.ret>>)>>)
    /\ UNCHANGED <<connections, nextConn, now, pushes>>
    /\ UNCHANGED clientVars

\* 'credits:balance'
CreditsBalance(c, userId) ==
    /\ c \in DOMAIN connections
    /\ LET r == IF BindOk(userId) THEN Ok(DB, getBalance(DB, userId)) ELSE Throw(DB)
       IN /\ SetDB(r.db)
          /\ Reply(c, r, <<Msg(c, "credits:balance", NullId, <<r.ret>>)>>)
    /\ UNCHANGED <<connections, nextConn, now, pushes>>
    /\ UNCHANGED clientVars

\* 'credits:history'
CreditsHistory(c, userId) ==
    /\ c \in DOMAIN connections
    /\ LET r == getTransactionHistory(DB, userId)
       IN /\ SetDB(r.db)
          /\ Reply(c, r, <<Msg(c, "credits:history", NullId, <<r.ret>>)>>)
    /\ UNCHANGED <<connections, nextConn, now, pushes>>
    /\ UNCHANGED clientVars

\* a GET request of the HTTP facade
HttpGet(route, id) ==
    /\ LET r == httpGet(DB, route, id, now)
       IN /\ SetDB(r.db)
          /\ out' = <<Msg(HttpCaller, route, NullId, <<r.ret>>)>>
    /\ UNCHANGED <<connections, nextConn, now, pushes>>
    /\ UNCHANGED clientVars

\* 'task:create' without the check of payload.userId: the task is stored with
\* whatever owner the message carries
TaskCreate_noAuthCheck(c, userId, credits, priority) ==
    /\ c \in DOMAIN connections
    /\ Entities < MaxEntities
    /\ LET r == create(DB, userId, priority, credits, now)
       IN /\ SetDB(r.db)
          /\ Reply(c, r, broadcastTaskAvailable(connections)
                            \o <<Msg(c, "task:created", r.ret, <<>>)>>)
    /\ UNCHANGED <<connections, nextConn, now, pushes>>
    /\ UNCHANGED clientVars

TaskCreate(c, userId, credits, priority) ==
    /\ c \in DOMAIN connections
    /\ userId # NullId => Entities < MaxEntities
    /\ LET r == IF userId = NullId
                THEN Throw(DB)
                ELSE create(DB, userId, priority, credits, now)
       IN /\ SetDB(r.db)
          /\ IF userId = NullId
             THEN out' = <<AuthRequired(c)>>
             ELSE Reply(c, r, broadcastTaskAvailable(connections)
                                \o <<Msg(c, "task:created", r.ret, <<>>)>>)
    /\ UNCHANGED <<connections, nextConn, now, pushes>>
    /\ UNCHANGED clientVars

WorkerRegister(c, userId) ==
    /\ c \in DOMAIN connections
    /\ Entities < MaxEntities
    /\ LET r == registerWorker(DB, userId, now)
       IN /\ SetDB(r.db)
          /\ connections' = [connections EXCEPT ![c].type = "worker", ![c].workerId = r.ret]
          /\ out' = <<Msg(c, "worker:registered", NullId, <<r.ret>>)>>
    /\ UNCHANGED <<nextConn, now, pushes>>
    /\ UNCHANGED clientVars

WorkerHeartbeat(c) ==
    /\ c \in DOMAIN connections
    /\ LET w == connections[c].workerId
           r == IF w # NullId THEN heartbeat(DB, w, now) ELSE Ok(DB, NullId)
       IN SetDB(r.db)
    /\ out' = <<>>
    /\ UNCHANGED <<connections, nextConn, now, pushes>>
    /\ UNCHANGED clientVars

WorkerStatus(c, status) ==
    /\ c \in DOMAIN connections
    /\ LET w == connections[c].workerId
           r == IF w # NullId THEN setStatus(DB, w, status) ELSE Ok(DB, NullId)
       IN SetDB(r.db)
    /\ out' = <<>>
    /\ UNCHANGED <<connections, nextConn, now, pushes>>
    /\ UNCHANGED clientVars

WorkerList(c) ==
    /\ c \in DOMAIN connections
    /\ out' = <<Msg(c, "worker:list", NullId, getAvailableWorkers(DB, now))>>
    /\ UNCHANGED <<users, workers, tasks, txns, sessions, connections, nextConn, now,
                   pushes>>
    /\ UNCHANGED clientVars

RequestTask(c) ==
    /\ c \in DOMAIN connections
    /\ \E task \in getPendingTasks1(DB) :
         LET r == dispatchTaskToWorker(DB, connections[c].workerId, task)
             sent == ~r.err /\ r.ret # NullId
         IN /\ SetDB(r.db)
            /\ Reply(c, r, IF sent THEN <<Msg(c, "task:assigned", r.ret, <<>>)>> ELSE <<>>)
            /\ pushes' = IF sent
                         THEN (r.ret :> pushCount(r.ret) + 1) @@ pushes
                         ELSE pushes
    /\ UNCHANGED <<connections, nextConn, now>>
    /\ UNCHANGED clientVars

TaskComplete(c, taskId, result) ==
    /\ c \in DOMAIN connections
    /\ LET r == handleTaskComplete(DB, connections[c].workerId, taskId, result)
       IN /\ SetDB(r.db)
          /\ Reply(c, r, <<>>)
    /\ UNCHANGED <<connections, nextConn, now, pushes>>
    /\ UNCHANGED clientVars

TaskFailed(c, taskId, reason) ==
    /\ c \in DOMAIN connections
    /\ LET r == handleTaskFailed(DB, connections[c].workerId, taskId, reason)
       IN /\ SetDB(r.db)
          /\ Reply(c, r, <<>>)
    /\ UNCHANGED <<connections, nextConn, now, pushes>>
    /\ UNCHANGED clientVars

(***************************************************************************)
(* HTTP facade: POST /api/tasks                                            *)
(***************************************************************************)
HttpPostTask(userId, type, len, priority) ==
    /\ Entities < MaxEntities
    /\ LET required == estimateTaskCredits(type, len)
           current == getBalance(DB, userId)
           r == IF userId = NullId THEN Throw(DB)
                ELSE postTask(DB, userId, type, len, IF priority = 0 THEN 1 ELSE priority, now)
       IN /\ SetDB(r.db)
          /\ out' = IF userId = NullId
                    THEN <<Msg(HttpCaller, "http:400:missing", NullId, <<>>)>>
                    ELSE IF current < required
                    THEN <<Msg(HttpCaller, "http:400:insufficient", NullId,
                               <<userId, required, current>>)>>
                    ELSE IF r.err
                    THEN <<Msg(HttpCaller, "http:500", NullId, <<>>)>>
                    ELSE <<Msg(HttpCaller, "http:200", Len(tasks) + 1, <<userId, required>>)>>
    /\ UNCHANGED <<connections, nextConn, now, pushes>>
    /\ UNCHANGED clientVars

(***************************************************************************)
(* Direct calls of the module API, as a caller other than handleMessage    *)
(* may make them.  out records the call: [type = the method, info =        *)
(* <<arguments..., threw>>].                                               *)
(***************************************************************************)
Call(method, task, info) == <<Msg(NullId, method, task, info)>>

Deposit(userId, amount) ==
    /\ Len(txns) < MaxEntities
    /\ LET r == deposit(DB, userId, amount)
       IN /\ SetDB(r.db)
          /\ out' = Call("deposit", NullId, <<userId, amount, r.err>>)
    /\ UNCHANGED <<connections, nextConn, now, pushes>>
    /\ UNCHANGED clientVars

Spend(userId, amount) ==
    /\ Len(txns) < MaxEntities
    /\ LET r == spend(DB, userId, amount, NullId)
       IN /\ SetDB(r.db)
          /\ out' = Call("spend", NullId, <<userId, amount, r.err>>)
    /\ UNCHANGED <<connections, nextConn, now, pushes>>
    /\ UNCHANGED clientVars

Create(userId, priority, credits) ==
    /\ Entities < MaxEntities
    /\ LET r == create(DB, userId, priority, credits, now)
       IN /\ SetDB(r.db)
          /\ out' = Call("create", r.ret, <<>>)
    /\ UNCHANGED <<connections, nextConn, now, pushes>>
    /\ UNCHANGED clientVars

AssignToWorker(taskId, workerId) ==
    /\ LET r == assignToWorker(DB, taskId, workerId)
       IN /\ SetDB(r.db)
          /\ out' = Call("assignToWorker", taskId, <<workerId, r.err>>)
    /\ UNCHANGED <<connections, nextConn, now, pushes>>
    /\ UNCHANGED clientVars

Complete(taskId, result) ==
    /\ LET r == complete(DB, taskId, result)
       IN /\ SetDB(r.db)
          /\ out' = Call("complete", taskId, <<>>)
    /\ UNCHANGED <<connections, nextConn, now, pushes>>
    /\ UNCHANGED clientVars

Fail(taskId, reason) ==
    /\ LET r == fail(DB, taskId, reason)
       IN /\ SetDB(r.db)
          /\ out' = Call("fail", taskId, <<>>)
    /\ UNCHANGED <<connections, nextConn, now, pushes>>
    /\ UNCHANGED clientVars

RecordTaskCompletion(workerId, earnings) ==
    /\ LET r == recordTaskCompletion(DB, workerId, earnings)
       IN /\ SetDB(r.db)
          /\ out' = Call("recordTaskCompletion", NullId, <<workerId>>)
    /\ UNCHANGED <<connections, nextConn, now, pushes>>
    /\ UNCHANGED clientVars

RecordTaskFailure(workerId) ==
    /\ LET r == recordTaskFailure(DB, workerId)
       IN /\ SetDB(r.db)
          /\ out' = Call("recordTaskFailure", NullId, <<workerId>>)
    /\ UNCHANGED <<connections, nextConn, now, pushes>>
    /\ UNCHANGED clientVars

UpdateReputation(userId, delta) ==
    /\ LET r == updateReputation(DB, userId, delta)
       IN /\ SetDB(r.db)
          /\ out' = Call("updateReputation", NullId, <<userId>>)
    /\ UNCHANGED <<connections, nextConn, now, pushes>>
    /\ UNCHANGED clientVars

GetPendingTasks(limit) ==
    /\ out' = Call("getPendingTasks", NullId, <<limit>> \o getPendingTasks(DB, limit))
    /\ UNCHANGED <<users, workers, tasks, txns, sessions, connections, nextConn, now,
                   pushes>>
    /\ UNCHANGED clientVars

Verify(taskId, isCorrect) ==
    /\ LET r == verify(DB, taskId, isCorrect)
       IN /\ SetDB(r.db)
          /\ out' = Call("verify", taskId, <<isCorrect>>)
    /\ UNCHANGED <<connections, nextConn, now, pushes>>
    /\ UNCHANGED clientVars

\* the pending call calculateCreditsEarned(args) returns
CalculateCreditsEarned ==
    /\ Len(out) = 1
    /\ out[1].type = "calculateCreditsEarned"
    /\ LET a == out[1].info
       IN \E v \in calculateCreditsEarned(a[1], a[2], a[3], a[4], a[5]) :
             out' = Call("calculateCreditsEarned:returned", NullId, Append(a, v))
    /\ UNCHANGED <<users, workers, tasks, txns, sessions, connections, nextConn, now,
                   pushes>>
    /\ UNCHANGED clientVars

(***************************************************************************)
(* Specifications                                                          *)
(***************************************************************************)
\* The dispatch path of the server: connections, registration, task
\* submission over both paths, dispatch and outcome reports.  CR and PR are
\* the credits and priorities 'task:create' messages carry.
Server(CR, PR) ==
    \/ Connect
    \/ Tick
    \/ \E c \in DOMAIN connections : Close(c)
    \/ \E c \in DOMAIN connections, fresh \in BOOLEAN : AuthRegister(c, fresh)
    \/ \E c \in DOMAIN connections, u \in UserRefs \cup {GhostUser}, cr \in CR, p \in PR :
          TaskCreate(c, u, cr, p)
    \/ \E c \in DOMAIN connections, u \in UserRefs : WorkerRegister(c, u)
    \/ \E c \in DOMAIN connections : RequestTask(c)
    \/ /\ Recorded(workers) < MaxReports
       /\ \E c \in DOMAIN connections, t \in TaskRefs, res \in Results : TaskComplete(c, t, res)
    \/ /\ Recorded(workers) < MaxReports
       /\ \E c \in DOMAIN connections, t \in TaskRefs, res \in Results : TaskFailed(c, t, res)
    \/ \E u \in UserRefs \cup {GhostUser}, ty \in HttpTypes, len \in PromptLens,
          p \in HttpPriorities :
          HttpPostTask(u, ty, len, p)

\* Dispatch scope: two priorities, one (positive) credit estimate.
Next == Server(DispatchCredits, Priorities)

Spec == Init /\ [][Next]_vars

\* Ledger scope: any credit estimate a message may carry, one priority.
NextLedger == Server(TaskCredits, LedgerPriorities)

SpecLedger == Init /\ [][NextLedger]_vars

\* The CreditSystem methods called directly, in any order, next to the HTTP
\* task submission.
NextCredit ==
    \/ Connect
    \/ \E c \in DOMAIN connections, fresh \in BOOLEAN : AuthRegister(c, fresh)
    \/ \E u \in DOMAIN users \cup {GhostUser}, a \in DepositAmounts : Deposit(u, a)
    \/ \E u \in DOMAIN users \cup {GhostUser}, a \in SpendAmounts : Spend(u, a)
    \/ \E u \in UserRefs \cup {GhostUser}, ty \in HttpTypes, len \in PromptLens,
          p \in HttpPriorities :
          HttpPostTask(u, ty, len, p)

SpecCredit == Init /\ [][NextCredit]_vars

\* Outcome scope: workers owned by a user, by nobody or by a user id that
\* names no user; every task may be reported more than once.
NextOutcome ==
    \/ Connect
    \/ \E c \in DOMAIN connections : Close(c)
    \/ \E c \in DOMAIN connections, fresh \in BOOLEAN : AuthRegister(c, fresh)
    \/ \E c \in DOMAIN connections, u \in DOMAIN users, cr \in DispatchCredits,
          p \in LedgerPriorities :
          TaskCreate(c, u, cr, p)
    \/ \E c \in DOMAIN connections, u \in UserRefs \cup {GhostUser} : WorkerRegister(c, u)
    \/ \E c \in DOMAIN connections : RequestTask(c)
    \/ /\ Recorded(workers) < MaxOutcomeReports
       /\ \A w \in DOMAIN workers : workers[w].totalEarnings < MaxEarnings
       /\ \E c \in DOMAIN connections, t \in TaskRefs, res \in Results : TaskComplete(c, t, res)
    \/ /\ Recorded(workers) < MaxOutcomeReports
       /\ \E c \in DOMAIN connections, t \in TaskRefs, res \in Results : TaskFailed(c, t, res)

SpecOutcome == Init /\ [][NextOutcome]_vars

\* Queue scope: the TaskQueue methods called directly by one submitter, for
\* one worker id.
NextQueue ==
    \/ Tick
    \/ \E p \in Priorities, cr \in DispatchCredits : Create(GhostUser, p, cr)
    \/ \E t \in DOMAIN tasks : AssignToWorker(t, GhostUser)
    \/ \E limit \in Limits : GetPendingTasks(limit)

SpecQueue == Init /\ [][NextQueue]_vars

\* Liveness scope: the server after a minute of operation, with one or two
\* registered workers, each on its connection, whose heartbeats, statuses
\* and reputations are what earlier messages have left.
InitLiveness ==
    /\ InitClient
    /\ \E n \in 1..MaxListed :
          /\ workers \in [1..n -> [userId : {NullId}, status : WorkerStatuses,
                                   reputation : WorkerReputations,
                                   totalTasksCompleted : {0}, totalTasksFailed : {0},
                                   totalEarnings : {0}, lastHeartbeat : HeartbeatTimes]]
          /\ connections = [c \in 1..n |-> [type |-> "worker", workerId |-> c]]
          /\ nextConn = n
    /\ now \in ListTimes
    /\ users = <<>>
    /\ tasks = <<>>
    /\ txns = <<>>
    /\ sessions = <<>>
    /\ out = <<>>
    /\ pushes = <<>>

NextLiveness ==
    \/ \E c \in DOMAIN connections : WorkerList(c)
    \/ \E c \in DOMAIN connections : WorkerHeartbeat(c)
    \/ \E c \in DOMAIN connections, st \in StatusInputs : WorkerStatus(c, st)

SpecLiveness == InitLiveness /\ [][NextLiveness]_vars

\* Reputation scope: one registered user and one worker with a long
\* history; outcomes are recorded and the user's reputation is updated by
\* direct calls.
InitReputation ==
    /\ InitClient
    /\ users = <<[credits |-> 0, reputation |-> 100, totalEarned |-> 0, totalSpent |-> 0]>>
    /\ sessions = <<1>>
    /\ \E h \in WorkerHistories :
          workers = <<[userId |-> NullId, status |-> "online", reputation |-> h.reputation,
                       totalTasksCompleted |-> h.completed, totalTasksFailed |-> h.failed,
                       totalEarnings |-> 0, lastHeartbeat |-> 0]>>
    /\ tasks = <<>>
    /\ txns = <<>>
    /\ connections = <<>>
    /\ nextConn = 0
    /\ now = 0
    /\ out = <<>>
    /\ pushes = <<>>

NextReputation ==
    \/ \E w \in DOMAIN workers :
          /\ workers[w].totalTasksCompleted + workers[w].totalTasksFailed < MaxHistory
          /\ RecordTaskCompletion(w, 0)
    \/ \E w \in DOMAIN workers :
          /\ workers[w].totalTasksCompleted + workers[w].totalTasksFailed < MaxHistory
          /\ RecordTaskFailure(w)
    \/ \E u \in DOMAIN users, delta \in Deltas : UpdateReputation(u, delta)

SpecReputation == InitReputation /\ [][NextReputation]_vars

\* Error scope: the outcome scope, with messages that cannot be parsed, of
\* unknown type, and task creations that carry no userId.
NextErrors ==
    \/ NextOutcome
    \/ \E c \in DOMAIN connections : ParseError(c)
    \/ \E c \in DOMAIN connections : UnknownMessage(c)
    \/ \E c \in DOMAIN connections, cr \in DispatchCredits, p \in LedgerPriorities :
          TaskCreate(c, NullId, cr, p)

SpecErrors == Init /\ [][NextErrors]_vars

\* Polling scope: users create tasks over their connections, workers register
\* and poll, connections open and close, outcomes are reported.
NextPolling ==
    \/ Connect
    \/ \E c \in DOMAIN connections : Close(c)
    \/ \E c \in DOMAIN connections, fresh \in BOOLEAN : AuthRegister(c, fresh)
    \/ \E c \in DOMAIN connections, u \in DOMAIN users, cr \in DispatchCredits,
          p \in Priorities :
          TaskCreate(c, u, cr, p)
    \/ \E c \in DOMAIN connections, u \in DOMAIN users : WorkerRegister(c, u)
    \/ \E c \in DOMAIN connections : RequestTask(c)
    \/ /\ Recorded(workers) < MaxReports
       /\ \E c \in DOMAIN connections, t \in DOMAIN tasks, res \in Results :
             TaskComplete(c, t, res)
    \/ /\ Recorded(workers) < MaxReports
       /\ \E c \in DOMAIN connections, t \in DOMAIN tasks, res \in Results :
             TaskFailed(c, t, res)

\* Read scope: users, tasks of two priorities, workers and dispatches, next
\* to every request that only reads: over a connection and over HTTP.
ReadRequest ==
    \/ \E c \in DOMAIN connections : AdminConnect(c)
    \/ \E c \in DOMAIN connections : AdminRefresh(c)
    \/ \E c \in DOMAIN connections, t \in TaskRefs : TaskGet(c, t)
    \/ \E c \in DOMAIN connections, u \in UserRefs : TaskList(c, u)
    \/ \E c \in DOMAIN connections : TaskStats(c)
    \/ \E c \in DOMAIN connections : WorkerList(c)
    \/ \E c \in DOMAIN connections : WorkerStats(c)
    \/ \E c \in DOMAIN connections, u \in UserRefs : CreditsBalance(c, u)
    \/ \E c \in DOMAIN connections, u \in UserRefs : CreditsHistory(c, u)
    \/ \E route \in HttpGetRoutes, id \in HttpIds : HttpGet(route, id)

NextReads ==
    \/ Connect
    \/ \E c \in DOMAIN connections, fresh \in BOOLEAN : AuthRegister(c, fresh)
    \/ \E c \in DOMAIN connections, u \in DOMAIN users, cr \in DispatchCredits,
          p \in LedgerPriorities :
          TaskCreate(c, u, cr, p)
    \/ \E c \in DOMAIN connections, u \in DOMAIN users : WorkerRegister(c, u)
    \/ \E c \in DOMAIN connections : RequestTask(c)
    \/ /\ Recorded(workers) < MaxReports
       /\ \E c \in DOMAIN connections, t \in DOMAIN tasks, res \in Results :
             TaskComplete(c, t, res)
    \/ ReadRequest

SpecReads == Init /\ [][NextReads]_vars

\* Silent-worker scope: workers register, poll, send heartbeats and reports;
\* connections close; more than a minute passes.
NextSilent ==
    \/ Connect
    \/ \E c \in DOMAIN connections : Close(c)
    \/ Elapse
    \/ \E c \in DOMAIN connections, cr \in DispatchCredits, p \in LedgerPriorities :
          TaskCreate(c, GhostUser, cr, p)
    \/ \E c \in DOMAIN connections : WorkerRegister(c, NullId)
    \/ \E c \in DOMAIN connections : WorkerHeartbeat(c)
    \/ \E c \in DOMAIN connections : RequestTask(c)
    \/ /\ Recorded(workers) < MaxReports
       /\ \E c \in DOMAIN connections, t \in DOMAIN tasks, res \in Results :
             TaskComplete(c, t, res)
    \/ /\ Recorded(workers) < MaxReports
       /\ \E c \in DOMAIN connections, t \in DOMAIN tasks, res \in Results :
             TaskFailed(c, t, res)

SpecSilent == Init /\ [][NextSilent]_vars

\* Formula scope: one call of calculateCreditsEarned, for any arguments.
InitFormula ==
    /\ InitClient
    /\ users = <<>>
    /\ workers = <<>>
    /\ tasks = <<>>
    /\ txns = <<>>
    /\ sessions = <<>>
    /\ connections = <<>>
    /\ nextConn = 0
    /\ now = 0
    /\ pushes = <<>>
    /\ \E b \in BaseCredits, r \in RamGB, c \in Cores, g \in GpuGB, p \in Reputations :
          out = Call("calculateCreditsEarned", NullId, <<b, r, c, g, p>>)

NextFormula == CalculateCreditsEarned

SpecFormula == InitFormula /\ [][NextFormula]_vars

\* connection c is open and belongs to a registered worker
Polling(c) == c \in DOMAIN connections /\ connections[c].workerId # NullId

\* The drone's task loop (setInterval, every 5 s) sends 'worker:request-task'
\* again and again for as long as its connection is open: a poll of a
\* registered worker connection that stays possible is eventually handled.
SpecPolling ==
    /\ Init
    /\ [][NextPolling]_vars
    /\ \A c \in 1..MaxEntities : WF_vars(Polling(c) /\ RequestTask(c))

(***************************************************************************)
(* Properties                                                              *)
(***************************************************************************)
\* the signed sum of user u's transactions in ledger rows 1..n
RECURSIVE LedgerSum(_, _, _)
LedgerSum(rows, u, n) ==
    IF n = 0
    THEN 0
    ELSE LedgerSum(rows, u, n - 1)
         + (IF rows[n].userId # u THEN 0
            ELSE IF rows[n].type \in {"deposit", "earn"} THEN rows[n].amount
            ELSE IF rows[n].type = "spend" THEN 0 - rows[n].amount
            ELSE 0)

HasTxn(u, type) == \E i \in DOMAIN txns : txns[i].userId = u /\ txns[i].type = type

\* C1: balance conservation.  Every user's credits equals the sum of the
\* amounts of the user's deposit/earn transactions minus the sum of the
\* amounts of the user's spend transactions, in every reachable state.
C1_BalanceConservation ==
    \A u \in DOMAIN users : users[u].credits = LedgerSum(txns, u, Len(txns))

\* a user who has earned (a completion was awarded) and spent (a task was
\* submitted over HTTP)
C1_Witness ==
    \E u \in DOMAIN users : HasTxn(u, "deposit") /\ HasTxn(u, "spend")

\* C2: no user's credit balance is ever negative, whatever creditsEstimate
\* the 'task:create' messages carry.
C2_NoNegativeBalance ==
    \A u \in DOMAIN users : users[u].credits >= 0

\* C3: every task in the task table was created together with a debit of
\* its creditsEstimate: a spend transaction of that amount by its userId.
C3_TaskDebited ==
    \A t \in DOMAIN tasks :
        \E i \in DOMAIN txns :
            /\ txns[i].type = "spend"
            /\ txns[i].userId = tasks[t].userId
            /\ txns[i].amount = tasks[t].creditsEstimate

\* the tasks a worker holds: assigned to it and not yet finished
Active(w) ==
    {t \in DOMAIN tasks : /\ tasks[t].assignedWorkerId = w
                          /\ tasks[t].status \in {"assigned", "running"}}

\* C4: in every reachable state each worker is the assignedWorkerId of at
\* most one task whose status is assigned or running.
C4_OneActiveTaskPerWorker ==
    \A w \in DOMAIN workers : Cardinality(Active(w)) <= 1

\* the connections registered as worker w
ConnsOf(w) == {c \in DOMAIN connections : connections[c].workerId = w}

\* C5: single assignment.  A task is pushed ('task:assigned') at most once,
\* and exactly once when it has an assignee; the assignee is set by one step
\* only, which takes the task from pending to assigned and pushes it to a
\* connection of the assignee and to no other; once set it never changes.
C5_SingleAssignment ==
    /\ [](\A t \in DOMAIN tasks :
            /\ pushCount(t) <= 1
            /\ (tasks[t].assignedWorkerId # NullId) <=> (pushCount(t) = 1))
    /\ [][\A t \in DOMAIN tasks :
            /\ tasks[t].assignedWorkerId # NullId
                 => tasks'[t].assignedWorkerId = tasks[t].assignedWorkerId
            /\ tasks'[t].assignedWorkerId # tasks[t].assignedWorkerId
                 => /\ tasks[t].status = "pending"
                    /\ tasks'[t].status = "assigned"
                    /\ \E c \in ConnsOf(tasks'[t].assignedWorkerId) :
                          out' = <<Msg(c, "task:assigned", t, <<>>)>>]_vars

\* two workers on two open connections, one task: one worker is its assignee,
\* the task was pushed once and the other worker has none
C5_Witness ==
    \E c1 \in DOMAIN connections, c2 \in DOMAIN connections, t \in DOMAIN tasks :
        /\ connections[c1].workerId \in DOMAIN workers
        /\ connections[c2].workerId \in DOMAIN workers
        /\ connections[c1].workerId # connections[c2].workerId
        /\ Len(tasks) = 1
        /\ tasks[t].status = "assigned"
        /\ tasks[t].assignedWorkerId = connections[c1].workerId
        /\ pushCount(t) = 1
        /\ workers[connections[c2].workerId].status = "online"
        /\ out = <<>>

\* C6: a spend succeeds only if the amount is at most the balance at that
\* moment and then debits exactly the amount; a rejected spend leaves users
\* and the transaction list unchanged; an accepted HTTP submission debits an
\* amount the balance covers; and over any sequence of spends and
\* submissions no account has spent more than it received.
C6_SpendChecked ==
    /\ [][\A u \in DOMAIN users \cup {GhostUser}, a \in SpendAmounts :
            /\ (Spend(u, a) /\ out' = Call("spend", NullId, <<u, a, FALSE>>))
                 => /\ u \in DOMAIN users
                    /\ a <= users[u].credits
                    /\ users' = [users EXCEPT ![u].credits = @ - a,
                                              ![u].totalSpent = @ + a]
                    /\ Len(txns') = Len(txns) + 1
            /\ (Spend(u, a) /\ out' = Call("spend", NullId, <<u, a, TRUE>>))
                 => UNCHANGED <<users, txns>>]_vars
    /\ [][\A u \in DOMAIN users, ty \in HttpTypes, len \in PromptLens, p \in HttpPriorities :
            (HttpPostTask(u, ty, len, p) /\ out'[1].type = "http:200")
                 => /\ estimateTaskCredits(ty, len) <= users[u].credits
                    /\ users'[u].credits = users[u].credits - estimateTaskCredits(ty, len)]_vars
    /\ [](\A u \in DOMAIN users : users[u].totalSpent <= users[u].totalEarned)

\* a spend was just rejected for an account that has spent before
C6_Witness ==
    \E u \in DOMAIN users, a \in SpendAmounts :
        /\ HasTxn(u, "spend")
        /\ users[u].credits < a
        /\ out = Call("spend", NullId, <<u, a, TRUE>>)

Transitions ==
    {<<"pending", "assigned">>, <<"assigned", "completed">>, <<"assigned", "failed">>,
     <<"completed", "verified">>, <<"failed", "verified">>}

\* C8: every status change of a task is pending -> assigned,
\* assigned -> completed | failed, or completed | failed -> verified.
C8_StateMachine ==
    [][\A t \in DOMAIN tasks :
          tasks'[t].status # tasks[t].status
             => <<tasks[t].status, tasks'[t].status>> \in Transitions]_vars

\* the pending tasks of the highest priority and, among these, the oldest
C9_Best ==
    LET P == {t \in DOMAIN tasks : tasks[t].status = "pending"}
        top == {t \in P : \A s \in P : tasks[s].priority <= tasks[t].priority}
    IN {t \in top : \A s \in top : tasks[t].createdAt <= tasks[s].createdAt}

\* C9: a 'worker:request-task' from a connection registered as a worker,
\* while a task is pending, changes exactly one task: a pending task of the
\* highest priority, oldest among these, becomes assigned to the requester's
\* worker; that worker becomes busy; and what is sent is one 'task:assigned'
\* for that task, to the requesting connection.
C9_RequestTask ==
    [][\A c \in DOMAIN connections :
          (/\ RequestTask(c)
           /\ connections[c].type = "worker"
           /\ connections[c].workerId \in DOMAIN workers
           /\ \E t \in DOMAIN tasks : tasks[t].status = "pending")
          => \E t \in C9_Best :
                /\ tasks' = [tasks EXCEPT ![t].status = "assigned",
                                          ![t].assignedWorkerId = connections[c].workerId]
                /\ workers' = [workers EXCEPT ![connections[c].workerId].status = "busy"]
                /\ out' = <<Msg(c, "task:assigned", t, <<>>)>>]_vars

\* a task created later with a higher priority was assigned while the
\* earlier task of lower priority is still pending
C9_Witness ==
    \E t \in DOMAIN tasks, s \in DOMAIN tasks :
        /\ s < t
        /\ tasks[s].priority < tasks[t].priority
        /\ tasks[s].status = "pending"
        /\ tasks[t].status = "assigned"
        /\ tasks[t].assignedWorkerId \in DOMAIN workers
        /\ workers[tasks[t].assignedWorkerId].status = "busy"
        /\ \E c \in ConnsOf(tasks[t].assignedWorkerId) :
              out = <<Msg(c, "task:assigned", t, <<>>)>>

\* C10: a 'worker:task-complete' from a worker's connection for a task with
\* creditsEstimate c increases that worker's totalEarnings by exactly c.
C10_EarningsIncreaseByEstimate ==
    [][\A c \in DOMAIN connections, t \in DOMAIN tasks, res \in Results :
          (TaskComplete(c, t, res) /\ connections[c].workerId \in DOMAIN workers)
          => workers'[connections[c].workerId].totalEarnings
               = workers[connections[c].workerId].totalEarnings + tasks[t].creditsEstimate]_vars

\* C11: a 'worker:task-complete' from a worker's connection for a task with
\* creditsEstimate c: when the worker has an owning user, exactly one
\* transaction is appended, of amount c for that user, and that user's
\* balance increases by c while every other balance is unchanged; when the
\* worker has no owning user (user_id null, or naming no user), users and
\* transactions are unchanged.
C11_CompletionLedgerEffect ==
    [][\A c \in DOMAIN connections, t \in DOMAIN tasks, res \in Results :
          (TaskComplete(c, t, res) /\ connections[c].workerId \in DOMAIN workers)
          => LET u == workers[connections[c].workerId].userId
                 amount == tasks[t].creditsEstimate
             IN /\ u \in DOMAIN users
                    => /\ Len(txns') = Len(txns) + 1
                       /\ SubSeq(txns', 1, Len(txns)) = txns
                       /\ txns'[Len(txns')].userId = u
                       /\ txns'[Len(txns')].amount = amount
                       /\ \A v \in DOMAIN users :
                             users'[v].credits
                               = users[v].credits + (IF v = u THEN amount ELSE 0)
                /\ u \notin DOMAIN users => UNCHANGED <<users, txns>>]_vars

\* the owner of the reporting worker was paid the estimate of the completed
\* task by one transaction
C11_Witness ==
    \E w \in DOMAIN workers, t \in DOMAIN tasks :
        /\ workers[w].totalTasksCompleted = 1
        /\ workers[w].userId \in DOMAIN users
        /\ tasks[t].status = "completed"
        /\ Len(txns) = 1
        /\ txns[1].userId = workers[w].userId
        /\ txns[1].amount = tasks[t].creditsEstimate
        /\ users[workers[w].userId].credits = tasks[t].creditsEstimate

\* C12: after a 'worker:task-complete' from a worker's connection for a task
\* is processed, the task is completed with the reported result stored, the
\* reporting worker is online, its totalTasksCompleted is one more than
\* before and its reputation is min(2.0, previous reputation + 0.01).
C12_CompletionRecorded ==
    [][\A c \in DOMAIN connections, t \in DOMAIN tasks, res \in Results :
          (TaskComplete(c, t, res) /\ connections[c].workerId \in DOMAIN workers)
          => LET w == connections[c].workerId
             IN /\ tasks'[t].status = "completed"
                /\ tasks'[t].resultData = <<res>>
                /\ workers'[w].status = "online"
                /\ workers'[w].totalTasksCompleted = workers[w].totalTasksCompleted + 1
                /\ workers'[w].reputation = Min(200, workers[w].reputation + 1)]_vars

\* C13: after a 'worker:task-failed' from a worker's connection for a task
\* is processed, the task is failed, the worker is online with
\* totalTasksFailed one more than before and reputation
\* max(0.1, previous reputation - 0.05), nothing else of any worker changes
\* (no totalEarnings in particular), and users and transactions are
\* unchanged.
C13_FailureRecorded ==
    [][\A c \in DOMAIN connections, t \in DOMAIN tasks, res \in Results :
          (TaskFailed(c, t, res) /\ connections[c].workerId \in DOMAIN workers)
          => LET w == connections[c].workerId
             IN /\ tasks'[t].status = "failed"
                /\ workers' = [workers EXCEPT
                                 ![w].status = "online",
                                 ![w].totalTasksFailed = @ + 1,
                                 ![w].reputation = Max(10, @ - 5)]
                /\ UNCHANGED <<users, txns>>]_vars

\* a worker that was busy with a task reported its failure: the task is
\* failed, the worker is online again with one failure and reputation 0.95
C13_Witness ==
    \E w \in DOMAIN workers, t \in DOMAIN tasks :
        /\ tasks[t].status = "failed"
        /\ tasks[t].assignedWorkerId = w
        /\ workers[w].status = "online"
        /\ workers[w].totalTasksFailed = 1
        /\ workers[w].reputation = 95
        /\ workers[w].totalEarnings = 0
        /\ txns = <<>>

\* C14: a 'worker:task-complete' or 'worker:task-failed' for a task that is
\* already completed, failed or verified changes no task, no worker, no
\* user and no transaction.
C14_TerminalReportNoEffect ==
    [][\A c \in DOMAIN connections, t \in DOMAIN tasks, res \in Results :
          (/\ TaskComplete(c, t, res) \/ TaskFailed(c, t, res)
           /\ tasks[t].status \in {"completed", "failed", "verified"})
          => UNCHANGED <<tasks, workers, users, txns>>]_vars

\* C15: a handler that ends in an error (an 'error' event is what it sends)
\* leaves users, workers, tasks, transactions and sessions unchanged; and a
\* 'worker:task-complete' either completes the task, awards the earnings and
\* records the worker's completion, or changes nothing.
C15_AllOrNothing ==
    /\ [][(\E c \in DOMAIN connections : out' = <<ErrorMsg(c)>>)
            => UNCHANGED <<users, workers, tasks, txns, sessions>>]_vars
    /\ [][\A c \in DOMAIN connections, t \in TaskRefs, res \in Results :
            TaskComplete(c, t, res)
            => \/ UNCHANGED <<users, workers, tasks, txns, sessions>>
               \/ LET w == connections[c].workerId
                  IN /\ t \in DOMAIN tasks
                     /\ w \in DOMAIN workers
                     /\ tasks'[t].status = "completed"
                     /\ workers'[w].totalEarnings > workers[w].totalEarnings
                     /\ workers'[w].status = "online"
                     /\ workers'[w].totalTasksCompleted
                          = workers[w].totalTasksCompleted + 1]_vars

\* C16: a message that cannot be parsed, has an unknown type, or whose
\* handler raises (a task creation without userId, an outcome report from a
\* connection that is no worker's) is answered by exactly one 'error' event,
\* sent to the originating connection; whenever an 'error' event is sent it
\* is the only message sent and the connection table is unchanged; and a
\* connection leaves the table only by a close.
C16_ErrorsAnswered ==
    /\ [][\A c \in DOMAIN connections :
            (\/ ParseError(c)
             \/ UnknownMessage(c)
             \/ \E cr \in DispatchCredits, p \in LedgerPriorities : TaskCreate(c, NullId, cr, p)
             \/ /\ connections[c].workerId = NullId
                /\ \E t \in DOMAIN tasks, res \in Results :
                      TaskComplete(c, t, res) \/ TaskFailed(c, t, res))
            => /\ Len(out') = 1
               /\ out'[1].type = "error"
               /\ out'[1].to = c
               /\ connections' = connections]_vars
    /\ [][(\E i \in DOMAIN out' : out'[i].type = "error")
            => /\ Len(out') = 1
               /\ out'[1].to \in DOMAIN connections
               /\ connections' = connections]_vars
    /\ [][\A c \in DOMAIN connections :
            c \notin DOMAIN connections' => Close(c)]_vars

\* with two connections open, an outcome report from a connection that is
\* no worker's was answered by an 'error' event to that connection, which is
\* still registered
C16_Witness ==
    \E c \in DOMAIN connections, d \in DOMAIN connections, t \in DOMAIN tasks :
        /\ c # d
        /\ connections[c].workerId = NullId
        /\ tasks[t].status = "failed"
        /\ out = <<ErrorMsg(c)>>

\* the pending tasks of the task table
Pending == {t \in DOMAIN tasks : tasks[t].status = "pending"}

\* task s is dispatched before task t: higher priority, or equal priority
\* and created earlier (row ids are in creation order)
C17_Earlier(s, t) ==
    \/ tasks[s].priority > tasks[t].priority
    \/ tasks[s].priority = tasks[t].priority /\ s < t

Listed == {out[1].info[k] : k \in DOMAIN out[1].info}

C19_ReputationBounds ==
    /\ \A w \in DOMAIN workers : workers[w].reputation \in 10..200
    /\ \A u \in DOMAIN users : users[u].reputation \in 10..200

\* the transactions of user u among rows 1..n, as row numbers
TxnsOf(u, n) == {i \in 1..n : txns[i].userId = u}

\* the balance user u had before row i was written: the balanceAfter of
\* the user's previous transaction, 0 if there is none
C20_BalanceBefore(u, i) ==
    IF TxnsOf(u, i - 1) = {}
    THEN 0
    ELSE txns[CHOOSE j \in TxnsOf(u, i - 1) : \A k \in TxnsOf(u, i - 1) : k <= j].balanceAfter

\* C20: the transaction log only grows by appending; the balanceAfter of
\* each transaction is the balanceAfter of its user's previous transaction
\* (0 if none) plus the amount of a deposit / earn or minus the amount of a
\* spend; and the balanceAfter of a user's latest transaction is the user's
\* credits.
C20_RunningBalance ==
    /\ [](\A i \in DOMAIN txns :
            txns[i].balanceAfter
              = C20_BalanceBefore(txns[i].userId, i)
                + (IF txns[i].type = "spend" THEN 0 - txns[i].amount ELSE txns[i].amount))
    /\ [](\A u \in DOMAIN users :
            TxnsOf(u, Len(txns)) # {}
              => users[u].credits = C20_BalanceBefore(u, Len(txns) + 1))
    /\ [][Len(txns') >= Len(txns) /\ SubSeq(txns', 1, Len(txns)) = txns]_vars

\* an account with a deposit, a spend and a deposit after it, next to a
\* transaction of another account in between or around
C20_Witness ==
    \E u \in DOMAIN users, v \in DOMAIN users, i \in DOMAIN txns, j \in DOMAIN txns,
       k \in DOMAIN txns, l \in DOMAIN txns :
        /\ u # v
        /\ i < j /\ j < k
        /\ txns[i].userId = u /\ txns[i].type = "deposit"
        /\ txns[j].userId = u /\ txns[j].type = "spend"
        /\ txns[k].userId = u /\ txns[k].type = "deposit"
        /\ txns[l].userId = v /\ l < k

\* C21: a worker's stored status is always one of online, offline, busy,
\* disabled, and it changes only to busy, in the step that assigns a task to
\* the worker, or to online, in the step that records its completion or
\* failure.
C21_StatusByCoordinatorOnly ==
    /\ [](\A w \in DOMAIN workers : workers[w].status \in WorkerStatuses)
    /\ [][\A w \in DOMAIN workers :
            workers'[w].status # workers[w].status
            => \/ /\ workers'[w].status = "busy"
                  /\ \E c \in ConnsOf(w) : RequestTask(c)
               \/ /\ workers'[w].status = "online"
                  /\ \E c \in ConnsOf(w), t \in DOMAIN tasks, res \in Results :
                        TaskComplete(c, t, res) \/ TaskFailed(c, t, res)]_vars

\* C22: a POST /api/tasks by user u whose estimated cost exceeds u's balance
\* is answered by the insufficient-credits error carrying the required and
\* the current amount and changes no user, task or transaction; with a
\* sufficient balance u's balance decreases by exactly the estimate and
\* exactly one task is appended, with status pending.
C22_HttpSubmission ==
    [][\A u \in DOMAIN users \cup {GhostUser}, ty \in HttpTypes, len \in PromptLens,
         p \in HttpPriorities :
          HttpPostTask(u, ty, len, p)
          => LET required == estimateTaskCredits(ty, len)
                 current == IF u \in DOMAIN users THEN users[u].credits ELSE 0
             IN IF required > current
                THEN /\ out' = <<Msg(HttpCaller, "http:400:insufficient", NullId,
                                     <<u, required, current>>)>>
                     /\ UNCHANGED <<users, tasks, txns>>
                ELSE /\ users'[u].credits = current - required
                     /\ Len(tasks') = Len(tasks) + 1
                     /\ SubSeq(tasks', 1, Len(tasks)) = tasks
                     /\ tasks'[Len(tasks')].status = "pending"
                     /\ tasks'[Len(tasks')].userId = u
                     /\ tasks'[Len(tasks')].creditsEstimate = required]_vars

\* a user with 3 credits submitted a task estimated at 2: the balance is 1
\* and the task is pending
C22_Witness ==
    \E u \in DOMAIN users, t \in DOMAIN tasks :
        /\ out = <<Msg(HttpCaller, "http:200", t, <<u, 200>>)>>
        /\ users[u].credits = 100
        /\ users[u].totalEarned = 300
        /\ tasks[t].status = "pending"
        /\ Len(tasks) = 1

\* C23: a 'task:create' that carries no userId is answered by one 'error'
\* event (Authentication required) to its sender and by nothing else: no
\* 'worker:task-available' is sent, and no task, user, transaction or worker
\* changes.
C23_CreateWithoutUser ==
    [][\A c \in DOMAIN connections, cr \in DispatchCredits, p \in LedgerPriorities :
          TaskCreate(c, NullId, cr, p)
          => /\ out' = <<AuthRequired(c)>>
             /\ UNCHANGED <<tasks, users, txns, workers, connections>>]_vars

\* with a user registered and a worker connection open, a 'task:create'
\* without userId from another connection was answered by the error, and
\* there is no task
C23_Witness ==
    \E c \in DOMAIN connections, d \in DOMAIN connections :
        /\ c # d
        /\ connections[d].type = "worker"
        /\ users # <<>>
        /\ tasks = <<>>
        /\ out = <<AuthRequired(c)>>

\* C24: in every step that creates a task ('task:create' or POST /api/tasks)
\* a 'worker:task-available' message is sent to each open connection tagged
\* worker, and to no connection tagged client or admin.
C24_BroadcastOnCreate ==
    [][Len(tasks') > Len(tasks)
         => \A c \in DOMAIN connections :
               connections[c].type = "worker"
               <=> \E i \in DOMAIN out' :
                      out'[i] = Msg(c, "worker:task-available", NullId, <<>>)]_vars

C26_EmptyPoll ==
    [][\A c \in DOMAIN connections :
          (RequestTask(c) /\ Pending = {})
          => /\ out' = <<>>
             /\ UNCHANGED <<tasks, workers, users, txns, pushes, connections>>]_vars

\* the only connection ever opened registered a worker and then polled
\* while the task table was empty: nothing was sent, the worker is online
C26_Witness ==
    /\ nextConn = 1
    /\ Polling(1)
    /\ tasks = <<>>
    /\ out = <<>>
    /\ workers[connections[1].workerId].status = "online"

\* C27: a step that handles a read-only request ('admin:connect',
\* 'admin:refresh', 'task:get', 'task:list', 'task:stats', 'worker:list',
\* 'worker:stats', 'credits:balance', 'credits:history', or a GET of the HTTP
\* facade) leaves every user, worker, task, transaction and session
\* unchanged.
C27_ReadsDoNotWrite ==
    [][ReadRequest => UNCHANGED <<users, workers, tasks, txns, sessions>>]_vars

\* a connection received the admin snapshot (one user, one worker, nothing
\* pending) while a task is assigned
C27_Witness ==
    \E c \in DOMAIN connections, t \in DOMAIN tasks :
        /\ connections[c].type = "admin"
        /\ tasks[t].status = "assigned"
        /\ out = <<Msg(c, "admin:data", NullId, <<1, 1, 0>>)>>

\* C28: no automatic requeue.  The status and the assignee of an assigned
\* task change only in a step that handles a 'worker:task-complete' or
\* 'worker:task-failed' for that task; and a close of any connection, the
\* passing of more than a minute, a registration, or a poll from a connection
\* of another worker leaves the task assigned to the same worker and that
\* worker's status as it was (busy stays busy).
C28_NoRequeue ==
    /\ [][\A t \in DOMAIN tasks :
            (/\ tasks[t].status = "assigned"
             /\ \/ tasks'[t].status # "assigned"
                \/ tasks'[t].assignedWorkerId # tasks[t].assignedWorkerId)
            => \E c \in DOMAIN connections, res \in Results :
                  TaskComplete(c, t, res) \/ TaskFailed(c, t, res)]_vars
    /\ [][\A t \in DOMAIN tasks :
            (/\ tasks[t].status = "assigned"
             /\ tasks[t].assignedWorkerId \in DOMAIN workers
             /\ \/ \E c \in DOMAIN connections : Close(c)
                \/ Elapse
                \/ \E c \in DOMAIN connections : WorkerRegister(c, NullId)
                \/ \E c \in DOMAIN connections :
                      /\ connections[c].workerId # tasks[t].assignedWorkerId
                      /\ RequestTask(c))
            => /\ tasks'[t].status = "assigned"
               /\ tasks'[t].assignedWorkerId = tasks[t].assignedWorkerId
               /\ workers'[tasks[t].assignedWorkerId].status
                    = workers[tasks[t].assignedWorkerId].status]_vars

\* a task is still assigned to a busy worker whose connection has closed and
\* whose last heartbeat is more than a minute old, while another worker is
\* registered
C28_Witness ==
    \E t \in DOMAIN tasks, v \in DOMAIN workers :
        LET w == tasks[t].assignedWorkerId
        IN /\ tasks[t].status = "assigned"
           /\ w \in DOMAIN workers
           /\ v # w
           /\ workers[w].status = "busy"
           /\ ConnsOf(w) = {}
           /\ ConnsOf(v) # {}
           /\ now - workers[w].lastHeartbeat > LivenessWindow
           /\ w \notin {getAvailableWorkers(DB, now)[i] : i \in DOMAIN getAvailableWorkers(DB, now)}

\* the product base * max(0.1, ram) * max(0.1, cores) * (1 + gpu if gpu > 0
\* else 1) * clamp(reputation, 0.1, 3.0) of the arguments a, in units of
\* 1 / 100000 credit
C29_Product(a) ==
    a[1] * (IF a[2] < 10 THEN 10 ELSE a[2]) * (IF a[3] < 10 THEN 10 ELSE a[3])
         * (IF a[4] > 0 THEN 1 + a[4] ELSE 1)
         * (IF a[5] < 1 THEN 1 ELSE IF a[5] > 30 THEN 30 ELSE a[5])

C30_AvailableNotBusy ==
    (Len(out) = 1 /\ out[1].type = "worker:list")
    => \A w \in Listed : workers[w].status = "online"

\* C31: only the assignee can report an outcome.  A 'worker:task-complete' or
\* 'worker:task-failed' for task t handled on a connection whose worker id
\* is not t's assignee changes no task, no worker and no user.
C31_OnlyAssigneeReports ==
    [][\A c \in DOMAIN connections, t \in DOMAIN tasks, res \in Results :
          (/\ TaskComplete(c, t, res) \/ TaskFailed(c, t, res)
           /\ connections[c].workerId # tasks[t].assignedWorkerId)
          => UNCHANGED <<tasks, workers, users>>]_vars

\* the sum of field f over user rows 1..n
RECURSIVE C32_Total(_, _)
C32_Total(f, n) == IF n = 0 THEN 0 ELSE C32_Total(f, n - 1) + users[n][f]

\* C32: task processing mints no credits.  The server credits no account
\* from outside the task flow (accounts start at 0), so the users' earnings
\* never exceed what submitters were debited, and the sum of all balances is
\* never above 0.
C32_NoMinting ==
    /\ C32_Total("totalEarned", Len(users)) <= C32_Total("totalSpent", Len(users))
    /\ C32_Total("credits", Len(users)) <= 0

\* C33: dispatch respects eligibility.  A 'worker:request-task' that
\* assigns a task (sends 'task:assigned') is handled for a registered worker
\* whose last heartbeat is less than 60 seconds old, whose status is neither
\* disabled nor offline, and whose reputation is at least 0.5.
C33_DispatchToEligible ==
    [][\A c \in DOMAIN connections :
          (/\ RequestTask(c)
           /\ \E i \in DOMAIN out' : out'[i].type = "task:assigned")
          => LET w == connections[c].workerId
             IN /\ w \in DOMAIN workers
                /\ now - workers[w].lastHeartbeat < LivenessWindow
                /\ workers[w].status \notin {"disabled", "offline"}
                /\ workers[w].reputation >= MinReputation]_vars

\* C34: every assigned task's assignee is a worker of the registry; a
\* connection's worker id, once set, names an existing worker that no other
\* connection carries; and a 'worker:request-task' on a connection that never
\* registered a worker changes no task.
C34_AssigneeExists ==
    /\ [](/\ \A t \in DOMAIN tasks :
               tasks[t].status = "assigned" => tasks[t].assignedWorkerId \in DOMAIN workers
          /\ \A c \in DOMAIN connections :
               connections[c].workerId # NullId
               => /\ connections[c].workerId \in DOMAIN workers
                  /\ ConnsOf(connections[c].workerId) = {c})
    /\ [][\A c \in DOMAIN connections :
            (RequestTask(c) /\ connections[c].workerId = NullId)
            => UNCHANGED <<tasks, workers>>]_vars

\* a connection that never registered polled while a task was pending: it
\* got an error, the task is still pending, and the other task is assigned
\* to the worker of another connection
C34_Witness ==
    \E c \in DOMAIN connections, d \in DOMAIN connections, s \in Pending, t \in DOMAIN tasks :
        /\ connections[c].workerId = NullId
        /\ connections[d].workerId \in DOMAIN workers
        /\ tasks[t].status = "assigned"
        /\ tasks[t].assignedWorkerId = connections[d].workerId
        /\ Recorded(workers) = 0
        /\ \A x \in DOMAIN tasks : tasks[x].status \in {"pending", "assigned"}
        /\ out = <<ErrorMsg(c)>>

\* C35: save after every mutation.  When the handling of a
\* 'worker:task-complete' ends, with or without an error event, the database
\* file (the database as of the last save) equals the database in memory.
C35_SavedAfterMessage ==
    [][\A c \in DOMAIN connections, t \in TaskRefs, res \in Results :
          TaskComplete(c, t, res)
          => savedByTaskComplete(DB, connections[c].workerId, t, res)
               = [users |-> users', workers |-> workers', tasks |-> tasks',
                  txns |-> txns', sessions |-> sessions']]_vars

(***************************************************************************)
(* The client's HiveNetwork (client/network/network.js).                   *)
(*                                                                         *)
(* A message is a record [type, payload]; a heartbeat has no payload.      *)
(* Every callback (a socket event, a timer, the continuation after an      *)
(* await) runs to completion and is one action.                            *)
(***************************************************************************)
serverVars == <<users, workers, tasks, txns, sessions, connections, nextConn, now,
                out, pushes>>

MaxSockets == 3      \* WebSockets the client creates
MaxWire == 3         \* messages written to the sockets or waiting in the queue

autoReconnect == TRUE            \* config.autoReconnect !== false: the default

RegisterMessage == [type |-> "worker:register", payload |-> [hostname |-> "host"]]

Net == [network |-> network, sockets |-> sockets, wire |-> wire]

SetNet(N) ==
    /\ network' = N.network
    /\ sockets' = N.sockets
    /\ wire' = N.wire

\* this.ws?.readyState
readyState(N) ==
    IF N.network.ws = NullId THEN "undefined"
    ELSE N.sockets[N.network.ws].readyState

send(N, message) ==
    IF readyState(N) = "OPEN"
    THEN [N EXCEPT !.wire = Append(@, message)]
    ELSE IF ~N.network.connected
    THEN [N EXCEPT !.network.messageQueue =
                     Append(@, [type |-> message.type,
                                from |-> N.network.workerId,   \* NullId: 'unknown'
                                payload |-> message,
                                timestamp |-> now])]
    ELSE N

\* The loop shifts a queued entry and hands it to send.  When send queues it
\* again (no open socket, not connected) the queue never empties.
RECURSIVE flushMessageQueue(_)
flushMessageQueue(N) ==
    IF N.network.messageQueue = <<>> THEN N
    ELSE IF readyState(N) # "OPEN" /\ ~N.network.connected
    THEN [N EXCEPT !.network.spinning = TRUE]
    ELSE LET msg == Head(N.network.messageQueue)
         IN flushMessageQueue(send([N EXCEPT !.network.messageQueue = Tail(@)], msg))

startHeartbeat(N) ==
    [N EXCEPT !.network.heartbeatInterval = TRUE, !.network.intervals = @ + 1]

stopHeartbeat(N) ==
    IF N.network.heartbeatInterval
    THEN [N EXCEPT !.network.heartbeatInterval = FALSE, !.network.intervals = @ - 1]
    ELSE N

scheduleReconnect(N) ==
    IF N.network.reconnectTimeout THEN N
    ELSE [N EXCEPT !.network.reconnectTimeout = TRUE]

\* connect() up to the return of the promise: a new socket with its listeners
connect(N) ==
    [N EXCEPT !.sockets = Append(@, [readyState |-> "CONNECTING", onOpen |-> "listening"]),
              !.network.ws = Len(N.sockets) + 1]

\* onOpen up to its await
onOpen(N, s) ==
    [N EXCEPT !.sockets[s] = [readyState |-> "OPEN", onOpen |-> "awaiting"],
              !.network.connected = TRUE]

\* onOpen after registerWorker's await
onOpenRegistered(N, s) ==
    flushMessageQueue(startHeartbeat(send(
        [N EXCEPT !.sockets[s].onOpen = "done"], RegisterMessage)))

\* the socket's 'close' listener
onClose(N, s) ==
    LET N1 == stopHeartbeat([N EXCEPT !.sockets[s] = [readyState |-> "CLOSED",
                                                      onOpen |-> @.onOpen],
                                      !.network.connected = FALSE])
    IN IF autoReconnect THEN scheduleReconnect(N1) ELSE N1

disconnect(N) ==
    LET N1 == stopHeartbeat(N)
        N2 == [N1 EXCEPT !.network.reconnectTimeout = FALSE]
        s == N.network.ws
        N3 == IF s # NullId
              THEN [N2 EXCEPT !.sockets[s].readyState =
                                  IF @ = "CLOSED" THEN "CLOSED" ELSE "CLOSING",
                              !.network.ws = NullId]
              ELSE N2
    IN [N3 EXCEPT !.network.connected = FALSE]

\* the caller (HiveDrone.start) connects
NetConnect ==
    /\ ~network.spinning
    /\ network.ws = NullId
    /\ Len(sockets) < MaxSockets
    /\ SetNet(connect(Net))
    /\ UNCHANGED <<serverVars, drone, cli>>

\* the server accepted socket s
OnOpen(s) ==
    /\ ~network.spinning
    /\ s \in DOMAIN sockets
    /\ sockets[s].readyState = "CONNECTING"
    /\ SetNet(onOpen(Net, s))
    /\ UNCHANGED <<serverVars, drone, cli>>

OnOpenRegistered(s) ==
    /\ ~network.spinning
    /\ s \in DOMAIN sockets
    /\ sockets[s].onOpen = "awaiting"
    /\ SetNet(onOpenRegistered(Net, s))
    /\ UNCHANGED <<serverVars, drone, cli>>

\* socket s closed: by the peer, by a failed handshake, or after ws.close()
OnClose(s) ==
    /\ ~network.spinning
    /\ s \in DOMAIN sockets
    /\ sockets[s].readyState # "CLOSED"
    /\ SetNet(onClose(Net, s))
    /\ UNCHANGED <<serverVars, drone, cli>>

\* the timer of scheduleReconnect fires
ReconnectTimer ==
    /\ ~network.spinning
    /\ network.reconnectTimeout
    /\ Len(sockets) < MaxSockets
    /\ SetNet(connect([Net EXCEPT !.network.reconnectTimeout = FALSE]))
    /\ UNCHANGED <<serverVars, drone, cli>>

\* an interval of startHeartbeat fires
HeartbeatTimer ==
    /\ ~network.spinning
    /\ network.intervals > 0
    /\ Len(wire) + Len(network.messageQueue) < MaxWire
    /\ SetNet(IF network.connected THEN send(Net, [type |-> "worker:heartbeat"]) ELSE Net)
    /\ UNCHANGED <<serverVars, drone, cli>>

\* the drone reports a task (reportTaskComplete)
NetSend(message) ==
    /\ ~network.spinning
    /\ Len(sockets) > 0
    /\ Len(wire) + Len(network.messageQueue) < MaxWire
    /\ SetNet(send(Net, message))
    /\ UNCHANGED <<serverVars, drone, cli>>

\* the caller (HiveDrone.stop) disconnects
NetDisconnect ==
    /\ ~network.spinning
    /\ network.ws # NullId
    /\ SetNet(disconnect(Net))
    /\ UNCHANGED <<serverVars, drone, cli>>

NextNetwork ==
    \/ NetConnect
    \/ \E s \in DOMAIN sockets : OnOpen(s)
    \/ \E s \in DOMAIN sockets : OnOpenRegistered(s)
    \/ \E s \in DOMAIN sockets : OnClose(s)
    \/ ReconnectTimer
    \/ HeartbeatTimer
    \/ \E t \in 1..2 :
          NetSend([type |-> "worker:task-complete",
                   payload |-> [taskId |-> t, result |-> "r1"]])
    \/ NetDisconnect

SpecNetwork == Init /\ [][NextNetwork]_vars

\* C38: after disconnect() on a client whose sockets had all opened, the
\* client stays disconnected: while no socket is held (ws is null) no
\* reconnect timer is pending, and a socket is created again only by the
\* caller's connect().
C38_StaysDisconnected ==
    /\ []((/\ network.ws = NullId
           /\ \A s \in DOMAIN sockets : sockets[s].onOpen # "listening")
          => ~network.reconnectTimeout)
    /\ [][(network.ws = NullId /\ network'.ws # NullId) => NetConnect]_vars

\* C39: when the socket held by the client has opened, the flush writes the
\* messages queued while disconnected to the server after the registration,
\* in the order they were queued, each once and as it was given to send, and
\* leaves the queue empty.
C39_QueuedDelivered ==
    [][\A s \in DOMAIN sockets :
          (/\ OnOpenRegistered(s)
           /\ network.ws = s
           /\ sockets[s].readyState = "OPEN")
          => /\ wire' = wire \o <<RegisterMessage>>
                          \o [i \in DOMAIN network.messageQueue |->
                                network.messageQueue[i].payload]
             /\ network'.messageQueue = <<>>]_vars

(***************************************************************************)
(* The CLI's drone (cli/commands/drone.js) and the server it talks to.     *)
(*                                                                         *)
(* The drone's socket is open exactly while the server holds its           *)
(* connection cli.conn.  A message the drone writes on the open socket is  *)
(* handled by the server in the same step.                                 *)
(***************************************************************************)
HeartbeatPeriod == 30            \* setInterval(..., 30000), in seconds
ReconnectDelay == 5              \* setTimeout(..., 5000), in seconds
MaxCliClock == 95                \* last second of the clock in the CLI scope

\* start(): this.running = true; connect() creates the socket
CliStart ==
    /\ ~cli.running
    /\ cli' = [cli EXCEPT !.running = TRUE, !.status = "connecting"]
    /\ out' = <<>>
    /\ UNCHANGED <<users, workers, tasks, txns, sessions, connections, nextConn, now,
                   pushes>>
    /\ UNCHANGED <<network, sockets, wire, drone>>

\* The server accepts the socket (handleConnection); onOpen registers the
\* worker, the server handles 'worker:register', and the heartbeat interval
\* starts.
CliOnOpen ==
    /\ cli.status = "connecting"
    /\ Entities + 2 <= MaxEntities
    /\ LET c == nextConn + 1
           r == registerWorker(DB, NullId, now)
       IN /\ SetDB(r.db)
          /\ nextConn' = c
          /\ connections' = connections @@ (c :> [type |-> "worker", workerId |-> r.ret])
          /\ out' = <<Msg(c, "worker:registered", NullId, <<r.ret>>)>>
          /\ cli' = [cli EXCEPT !.status = "connected", !.conn = c,
                                !.intervals = Append(@, now + HeartbeatPeriod)]
    /\ UNCHANGED <<now, pushes>>
    /\ UNCHANGED <<network, sockets, wire, drone>>

\* The i-th interval of startHeartbeat fires; the server handles the
\* 'worker:heartbeat' it sends.
CliHeartbeat(i) ==
    /\ i \in DOMAIN cli.intervals
    /\ cli.intervals[i] = now
    /\ IF cli.status = "connected"
       THEN /\ LET w == IF cli.conn \in DOMAIN connections
                        THEN connections[cli.conn].workerId
                        ELSE NullId
                   r == IF w # NullId THEN heartbeat(DB, w, now) ELSE Ok(DB, NullId)
               IN SetDB(r.db)
            /\ cli' = [cli EXCEPT !.status = "running",
                                  !.intervals[i] = now + HeartbeatPeriod]
       ELSE /\ cli' = [cli EXCEPT !.intervals[i] = now + HeartbeatPeriod]
            /\ UNCHANGED <<users, workers, tasks, txns, sessions>>
    /\ out' = <<>>
    /\ UNCHANGED <<connections, nextConn, now, pushes>>
    /\ UNCHANGED <<network, sockets, wire, drone>>

\* The connection drops: the server forgets it, the drone's 'close' listener
\* schedules a reconnect.
CliOnClose ==
    /\ cli.conn \in DOMAIN connections
    /\ connections' = [d \in DOMAIN connections \ {cli.conn} |-> connections[d]]
    /\ cli' = IF cli.running
              THEN [cli EXCEPT !.status = "disconnected", !.conn = NullId,
                               !.reconnectAt = now + ReconnectDelay]
              ELSE [cli EXCEPT !.conn = NullId]
    /\ out' = <<>>
    /\ UNCHANGED <<users, workers, tasks, txns, sessions, nextConn, now, pushes>>
    /\ UNCHANGED <<network, sockets, wire, drone>>

\* the timer of scheduleReconnect fires: connect() creates a new socket
CliReconnect ==
    /\ cli.reconnectAt # NullId
    /\ cli.reconnectAt = now
    /\ cli' = [cli EXCEPT !.status = "connecting", !.reconnectAt = NullId]
    /\ out' = <<>>
    /\ UNCHANGED <<users, workers, tasks, txns, sessions, connections, nextConn, now,
                   pushes>>
    /\ UNCHANGED <<network, sockets, wire, drone>>

\* time passes, at most up to the next timer (all delays are multiples of
\* the reconnect delay)
CliElapse ==
    /\ LET d == ReconnectDelay IN
        /\ now + d <= MaxCliClock
        /\ \A i \in DOMAIN cli.intervals : cli.intervals[i] >= now + d
        /\ cli.reconnectAt = NullId \/ cli.reconnectAt >= now + d
        /\ now' = now + d
    /\ out' = <<>>
    /\ UNCHANGED <<users, workers, tasks, txns, sessions, connections, nextConn,
                   pushes>>
    /\ UNCHANGED clientVars

NextCli ==
    \/ CliStart
    \/ CliOnOpen
    \/ \E i \in DOMAIN cli.intervals : CliHeartbeat(i)
    \/ CliOnClose
    \/ CliReconnect
    \/ CliElapse

SpecCli == Init /\ [][NextCli]_vars

\* C37: while the CLI drone's connection is open, the last heartbeat the
\* server recorded for its worker is never older than the liveness window.
C37_HeartbeatFresh ==
    cli.conn \in DOMAIN connections
    => now - workers[connections[cli.conn].workerId].lastHeartbeat <= LivenessWindow

(***************************************************************************)
(* The client's drone (client/index.js) with its SandboxedExecutor, and    *)
(* the server it talks to.  What the drone writes on its open socket is    *)
(* handled by the server in the same step, and so is the server's answer   *)
(* by the drone.                                                           *)
(***************************************************************************)
ExecutorMaxConcurrentTasks == 2  \* new SandboxedExecutor(): maxConcurrentTasks || 2

\* executeTask up to the await of runTask: execute() checks its own limit
\* against activeTasks.size, a map that no statement ever writes
executeTask(d, task) ==
    [d EXCEPT !.active = @ + 1, !.executing = @ \cup {task}]

\* main(): new HiveDrone(config), start() up to its return: the socket is
\* open, the server has accepted it and handled 'worker:register', the
\* client has handled 'worker:registered'.
DroneStart(m) ==
    /\ ~drone.running
    /\ drone.conn = NullId
    /\ network.ws = NullId
    /\ Entities + 2 <= MaxEntities
    /\ LET s == Len(sockets) + 1
           c == nextConn + 1
           r == registerWorker(DB, NullId, now)
           N == onOpenRegistered(onOpen(connect(Net), s), s)
       IN /\ SetDB(r.db)
          /\ nextConn' = c
          /\ connections' = connections @@ (c :> [type |-> "worker", workerId |-> r.ret])
          /\ out' = <<Msg(c, "worker:registered", NullId, <<r.ret>>)>>
          /\ network' = [N.network EXCEPT !.workerId = r.ret]
          /\ sockets' = N.sockets
          /\ drone' = [drone EXCEPT !.running = TRUE, !.conn = c,
                                    !.maxConcurrentTasks = m]
    /\ UNCHANGED <<now, pushes, wire, cli>>

\* The interval of startTaskLoop fires.  A request goes out when the executor
\* reports fewer active tasks than the limit; the server answers with
\* 'task:assigned' when a task is pending, and the listener of that event
\* starts executeTask.
TaskLoop ==
    /\ drone.running
    /\ IF network.connected /\ drone.activeTasks < drone.maxConcurrentTasks
       THEN \E task \in getPendingTasks1(DB) :
              LET w == connections[drone.conn].workerId
                  r1 == dispatchTaskToWorker(DB, w, task)
                  sent == ~r1.err /\ r1.ret # NullId
                  rejected == drone.activeTasks >= ExecutorMaxConcurrentTasks
                  r == IF sent /\ rejected
                       THEN handleTaskFailed(r1.db, w, r1.ret, "limit")
                       ELSE r1
              IN /\ SetDB(r.db)
                 /\ Reply(drone.conn, r,
                          IF sent THEN <<Msg(drone.conn, "task:assigned", r1.ret, <<>>)>>
                          ELSE <<>>)
                 /\ pushes' = IF sent
                              THEN (r1.ret :> pushCount(r1.ret) + 1) @@ pushes
                              ELSE pushes
                 /\ drone' = IF sent /\ ~rejected
                             THEN executeTask(drone, r1.ret)
                             ELSE drone
       ELSE /\ out' = <<>>
            /\ UNCHANGED <<users, workers, tasks, txns, sessions, pushes, drone>>
    /\ UNCHANGED <<connections, nextConn, now, network, sockets, wire, cli>>

\* runTask returns for a task in execution: the drone reports the outcome,
\* the server handles the report, executeTask ends
TaskFinished(task, success) ==
    /\ task \in drone.executing
    /\ LET w == connections[drone.conn].workerId
           r == IF success
                THEN handleTaskComplete(DB, w, task, "r1")
                ELSE handleTaskFailed(DB, w, task, "r1")
       IN /\ SetDB(r.db)
          /\ Reply(drone.conn, r, <<>>)
    /\ drone' = [drone EXCEPT !.active = @ - 1, !.executing = @ \ {task}]
    /\ UNCHANGED <<connections, nextConn, now, pushes, network, sockets, wire, cli>>

NextDrone ==
    \/ \E m \in {1, 2} : DroneStart(m)        \* --max-tasks; 2 is the default
    \/ TaskLoop
    \/ \E task \in DOMAIN tasks, success \in BOOLEAN : TaskFinished(task, success)
    \/ Connect
    \/ \E c \in DOMAIN connections, cr \in DispatchCredits, p \in LedgerPriorities :
          TaskCreate(c, GhostUser, cr, p)

SpecDrone == Init /\ [][NextDrone]_vars

\* C36: the number of executeTask calls in progress never exceeds the
\* drone's configured maxConcurrentTasks.
C36_WithinLimit ==
    drone.active <= drone.maxConcurrentTasks

====
